---- MODULE Spec2Model ----
(***************************************************************************)
(* zklogin-prover: the proof-request pipeline of server.js (JWT parsing,   *)
(* JWK resolution with a TTL cache, circuit-input encoding, snarkjs        *)
(* proving) and the file-based rapidsnark prover of the earlier server     *)
(* variant (readiness flags, fixed transient paths, cleanup).              *)
(***************************************************************************)
EXTENDS Integers, Sequences, FiniteSets, TLC

VARIABLES
    \* ---- parseJWT applied to one token (pure function) ----
    pTok,       \* the token handed to parseJWT
    pNow,       \* Math.floor(Date.now() / 1000) at the call
    pRes,       \* NoRes before the call, then parseJWT's outcome
    \* ---- server.js process ----
    now,        \* Date.now(), milliseconds
    jwkCache,   \* the Map jwkCache: cacheKey -> [jwk, timestamp]
    buildFiles, \* which of build/...wasm and build/...zkey exist
    req,        \* the /prove requests in flight, by request id
    \* ---- fetchJWK calls (from /prove or /debug/jwk) ----
    call,       \* fetchJWK invocations awaiting axios.get, by call id
    ret,        \* what the latest fetchJWK to finish handed its caller
    \* ---- file-based prover process ----
    keysReady, keyGenerationInProgress, keyGenerationError,
    disk,       \* the filesystem: path -> content
    running,    \* the handler the JavaScript thread is executing, or 0
    freq,       \* the file-based /prove requests, by request id
    \* ---- an encoder or reader applied to one input (pure function) ----
    arg,        \* the function applied and the input handed to it
    out         \* NoRes before the call, then the function's outcome

parseVars == <<pTok, pNow, pRes>>
serverVars == <<now, jwkCache, buildFiles, req>>
callVars == <<call, ret>>
fileVars == <<keysReady, keyGenerationInProgress, keyGenerationError, disk, running, freq>>
applyVars == <<arg, out>>
vars == <<pTok, pNow, pRes, now, jwkCache, buildFiles, req, call, ret,
          keysReady, keyGenerationInProgress, keyGenerationError, disk, running, freq,
          arg, out>>

(***************************************************************************)
(* JavaScript values.  A string is tagged by how the program reads it:     *)
(* "str" (opaque text), "dec" (a sequence of characters, read by the       *)
(* digit test and BigInt) or "b64" (text read through Buffer.from).        *)
(***************************************************************************)
Undef == [t |-> "undef"]
Null == [t |-> "null"]
Num(n) == [t |-> "num", n |-> n]
Str(s) == [t |-> "str", s |-> s]
Dec(c) == [t |-> "dec", c |-> c]
B64(id, bytes) == [t |-> "b64", id |-> id, bytes |-> bytes]
Obj(f) == [t |-> "obj", f |-> f]

IsString(v) == v.t \in {"str", "dec", "b64"}

\* a truthiness that only undefined and null fail
TruthyDefined(v) == v.t \notin {"undef", "null"}

\* JavaScript truthiness (the operand of ! and of &&)
Truthy(v) ==
    CASE v.t = "undef" -> FALSE
      [] v.t = "null" -> FALSE
      [] v.t = "num" -> v.n # 0
      [] v.t = "str" -> v.s # ""
      [] v.t = "dec" -> Len(v.c) > 0
      [] v.t = "b64" -> Len(v.bytes) > 0
      [] OTHER -> TRUE

\* obj.name: undefined for a field the object lacks and for a primitive
Get(v, name) ==
    IF v.t = "obj" /\ name \in DOMAIN v.f THEN v.f[name] ELSE Undef

\* a < n and a > n with n a number: a non-numeric operand compares false (NaN)
JsLess(a, n) == a.t = "num" /\ a.n < n
JsGreater(a, n) == a.t = "num" /\ a.n > n

\* message.includes(needle), on messages and needles held as word sequences
Includes(msg, needle) ==
    \E i \in 1..(Len(msg) - Len(needle) + 1) :
        SubSeq(msg, i, i + Len(needle) - 1) = needle

\* the array holding f[1] .. f[n]
Array(f, n) == SubSeq(f, 1, n)

Ok(v) == [ok |-> TRUE, val |-> v]
Err(m) == [ok |-> FALSE, err |-> m]

(***************************************************************************)
(* parseJWT (server.js 42-112).  A token is Undef, Str("") or              *)
(* [t |-> "jwt", parts |-> <<segment, ...>>]; a header or payload segment  *)
(* carries its raw text and what base64url + JSON.parse make of it:        *)
(* "notjson" (JSON.parse throws), Null, a primitive, or an object; the     *)
(* signature segment carries its raw text and the bytes it decodes to.     *)
(***************************************************************************)
Seg(dec) == [raw |-> [b64url |-> dec], dec |-> dec]
SigSeg(raw, bytes) == [raw |-> raw, bytes |-> bytes]
NotJson == [t |-> "notjson"]
Jwt(parts) == [t |-> "jwt", parts |-> parts]

\* error messages, as word sequences (punctuation is a word of its own)
MsgInvalidToken == <<"Invalid", "token", ":", "must", "be", "a", "non-empty", "string">>
MsgParts ==
    <<"Invalid", "JWT", ":", "must", "have", "exactly", "3", "parts", "separated",
      "by", "dots">>
MsgHeaderFields == <<"Invalid", "JWT", "header", ":", "missing", "required", "fields">>
MsgTokenType == <<"Invalid", "token", "type", ":", "expected", "JWT">>
MsgClaims == <<"Invalid", "JWT", "payload", ":", "missing", "required", "claims">>
MsgExpired == <<"Token", "has", "expired">>
MsgNotYetValid == <<"Token", "is", "not", "yet", "valid", "(", "nbf", "claim", ")">>
MsgIssuedInFuture == <<"Token", "issued", "in", "the", "future">>
MsgNoSignature == <<"Invalid", "JWT", ":", "missing", "signature">>
MsgSyntaxError == <<"Unexpected", "token", "in", "JSON">>
MsgTypeError == <<"Cannot", "read", "properties", "of", "null">>
MsgParsingFailed == <<"JWT", "parsing", "failed", ":">>

\* a JSON.parse that never throws
JsonParseLenient(dec) == Ok(IF dec.t = "notjson" THEN Num(0) ELSE dec)

\* JSON.parse of a decoded segment: throws a SyntaxError on non-JSON text
JsonParse(dec) == IF dec.t = "notjson" THEN Err(MsgSyntaxError) ELSE Ok(dec)

\* the skew the iat check allows, seconds (server.js 86)
IatSkew == 300

\* an iat check without the allowance
IssuedInFutureNoSkew(payload, nowSec) ==
    Truthy(Get(payload, "iat")) /\ JsGreater(Get(payload, "iat"), nowSec)

\* exp check (server.js 78)
Expired(payload, nowSec) ==
    Truthy(Get(payload, "exp")) /\ JsLess(Get(payload, "exp"), nowSec)

NotYetValid(payload, nowSec) ==
    Truthy(Get(payload, "nbf")) /\ JsGreater(Get(payload, "nbf"), nowSec)

IssuedInFuture(payload, nowSec) ==
    Truthy(Get(payload, "iat")) /\ JsGreater(Get(payload, "iat"), nowSec + IatSkew)

\* the body of the try block (server.js 52-105)
ParseBody(parts, nowSec) ==
    LET h == JsonParse(parts[1].dec)
        p == JsonParse(parts[2].dec)
    IN  IF ~h.ok THEN h
        ELSE IF h.val.t = "null" THEN Err(MsgTypeError)
        ELSE IF ~Truthy(Get(h.val, "alg")) \/ ~Truthy(Get(h.val, "typ"))
             THEN Err(MsgHeaderFields)
        ELSE IF Get(h.val, "typ") # Str("JWT") THEN Err(MsgTokenType)
        ELSE IF ~p.ok THEN p
        ELSE IF p.val.t = "null" THEN Err(MsgTypeError)
        ELSE IF ~Truthy(Get(p.val, "iss")) \/ ~Truthy(Get(p.val, "sub"))
                \/ ~Truthy(Get(p.val, "aud"))
             THEN Err(MsgClaims)
        ELSE IF Expired(p.val, nowSec) THEN Err(MsgExpired)
        ELSE IF NotYetValid(p.val, nowSec) THEN Err(MsgNotYetValid)
        ELSE IF IssuedInFuture(p.val, nowSec) THEN Err(MsgIssuedInFuture)
        ELSE IF parts[3].raw = "" THEN Err(MsgNoSignature)
        ELSE Ok([header |-> h.val, payload |-> p.val, signature |-> parts[3],
                 raw |-> [header |-> parts[1].raw, payload |-> parts[2].raw,
                          signature |-> parts[3].raw]])

\* the catch block (server.js 106-111)
ParseCatch(r) ==
    IF r.ok THEN r
    ELSE IF Includes(r.err, <<"Invalid", "JWT">>) \/ Includes(r.err, <<"Token">>)
         THEN r
    ELSE Err(MsgParsingFailed \o r.err)

parseJWT(token, nowSec) ==
    IF token.t # "jwt" THEN Err(MsgInvalidToken)
    ELSE IF Len(token.parts) # 3 THEN Err(MsgParts)
    ELSE ParseCatch(ParseBody(token.parts, nowSec))

(***************************************************************************)
(* Decimal strings and BigInt.  A decimal string is a sequence of          *)
(* one-character strings; a BigInt value is its sequence of decimal        *)
(* digits, most significant first, without leading zeros (zero is <<0>>),  *)
(* with a sign.  Machine integers of the model are 32 bits wide, as the    *)
(* operands of JavaScript's << and | are.                                  *)
(***************************************************************************)
DigitChars == {"0", "1", "2", "3", "4", "5", "6", "7", "8", "9"}
DigitVal(ch) ==
    CASE ch = "0" -> 0 [] ch = "1" -> 1 [] ch = "2" -> 2 [] ch = "3" -> 3
      [] ch = "4" -> 4 [] ch = "5" -> 5 [] ch = "6" -> 6 [] ch = "7" -> 7
      [] ch = "8" -> 8 [] ch = "9" -> 9
DigitChar(d) == <<"0", "1", "2", "3", "4", "5", "6", "7", "8", "9">>[d + 1]

\* /^\d+$/.test(value)
IsDigits(c) == Len(c) > 0 /\ \A i \in 1..Len(c) : c[i] \in DigitChars

StripZeros(d) ==
    LET nz == {i \in 1..Len(d) : d[i] # 0}
    IN  IF nz = {} THEN <<0>>
        ELSE SubSeq(d, CHOOSE i \in nz : \A j \in nz : i <= j, Len(d))

\* BigInt(value) of a digits-only string
BigOfDigits(c) == StripZeros([i \in 1..Len(c) |-> DigitVal(c[i])])

\* a < b on BigInt magnitudes
BigLess(a, b) ==
    IF Len(a) # Len(b) THEN Len(a) < Len(b)
    ELSE \E i \in 1..Len(a) : a[i] < b[i] /\ \A j \in 1..(i - 1) : a[j] = b[j]

\* (1n << BigInt(maxBits)) - 1n for maxBits = 256, the only width the callers
\* use (server.js 237, 248): 2^256 - 1
MaxValue256 ==
    <<1, 1, 5, 7, 9, 2, 0, 8, 9, 2, 3, 7, 3, 1, 6, 1, 9, 5, 4, 2, 3, 5, 7, 0,
      9, 8, 5, 0, 0, 8, 6, 8, 7, 9, 0, 7, 8, 5, 3, 2, 6, 9, 9, 8, 4, 6, 6, 5,
      6, 4, 0, 5, 6, 4, 0, 3, 9, 4, 5, 7, 5, 8, 4, 0, 0, 7, 9, 1, 3, 1, 2, 9,
      6, 3, 9, 9, 3, 5>>

\* the order of the scalar field of bn128, the curve the keys are set up for
\* (package.json 20): every circuit signal is an integer below it
FieldPrime ==
    <<2, 1, 8, 8, 8, 2, 4, 2, 8, 7, 1, 8, 3, 9, 2, 7, 5, 2, 2, 2, 2, 4, 6, 4,
      0, 5, 7, 4, 5, 2, 5, 7, 2, 7, 5, 0, 8, 8, 5, 4, 8, 3, 6, 4, 4, 0, 0, 4,
      1, 6, 0, 3, 4, 3, 4, 3, 6, 9, 8, 2, 0, 4, 1, 8, 6, 5, 7, 5, 8, 0, 8, 4,
      9, 5, 6, 1, 7>>

\* BigInt.prototype.toString() of a non-negative value
BigToString(a) == Array([i \in 1..Len(a) |-> DigitChar(a[i])], Len(a))

\* Number.prototype.toString() of a 32-bit integer
RECURSIVE NatDigits(_)
NatDigits(n) ==
    IF n < 10 THEN <<DigitChar(n)>> ELSE NatDigits(n \div 10) \o <<DigitChar(n % 10)>>
MinInt32 == (0 - 2147483647) - 1
IntToString(n) ==
    IF n >= 0 THEN NatDigits(n)
    ELSE IF n = MinInt32 THEN <<"-">> \o NatDigits(214748364) \o <<"8">>
    ELSE <<"-">> \o NatDigits(0 - n)

\* the text of a character sequence
Join(c) ==
    LET f[i \in 0..Len(c)] == IF i = 0 THEN "" ELSE f[i - 1] \o c[i]
    IN  f[Len(c)]

(***************************************************************************)
(* Tokens the model draws from.                                            *)
(***************************************************************************)
\* the earliest validation time of the model, seconds
BaseSec == 1000
\* validation times range over BaseSec .. BaseSec + ClockSpan
ClockSpan == 1
\* time claims range over TimeSpan seconds around the boundary they test
TimeSpan == 1

Header(alg, typ, kid) == Obj([alg |-> alg, typ |-> typ, kid |-> kid])
Payload(iss, sub, aud, exp, nbf, iat, nonce) ==
    Obj([iss |-> iss, sub |-> sub, aud |-> aud, exp |-> exp, nbf |-> nbf,
         iat |-> iat, nonce |-> nonce])

GoodHeader == Header(Str("RS256"), Str("JWT"), Str("kid1"))
GoodSig == SigSeg("sig", <<1, 2, 3, 4>>)
IssGoogle == "https://accounts.google.com"

TimedPayload(exp, nbf, iat) ==
    Payload(Str(IssGoogle), Str("user-1"), Str("app-1"), exp, nbf, iat, Undef)
TimedToken(exp, nbf, iat) ==
    Jwt(<<Seg(GoodHeader), Seg(TimedPayload(exp, nbf, iat)), GoodSig>>)

Around(t) == {Num(t + d) : d \in (0 - TimeSpan)..(TimeSpan + ClockSpan)}
ExpValues == {Undef, Num(0), Num(-1), Str("soon")} \cup Around(BaseSec)
NbfValues == {Undef, Num(0)} \cup Around(BaseSec)
IatValues == {Undef} \cup Around(BaseSec + IatSkew)

TimedTokens ==
    {TimedToken(e, n, i) : e \in ExpValues, n \in NbfValues, i \in IatValues}

ShapeTokens ==
    { Undef, Str(""),
      Jwt(<<Seg(GoodHeader), Seg(TimedPayload(Undef, Undef, Undef))>>),
      Jwt(<<Seg(GoodHeader), Seg(TimedPayload(Undef, Undef, Undef)), GoodSig, GoodSig>>),
      Jwt(<<Seg(NotJson), Seg(TimedPayload(Undef, Undef, Undef)), GoodSig>>),
      Jwt(<<Seg(GoodHeader), Seg(NotJson), GoodSig>>),
      Jwt(<<Seg(Null), Seg(TimedPayload(Undef, Undef, Undef)), GoodSig>>),
      Jwt(<<Seg(Num(5)), Seg(TimedPayload(Undef, Undef, Undef)), GoodSig>>),
      Jwt(<<Seg(Header(Undef, Str("JWT"), Str("kid1"))),
            Seg(TimedPayload(Undef, Undef, Undef)), GoodSig>>),
      Jwt(<<Seg(Header(Str("RS256"), Undef, Str("kid1"))),
            Seg(TimedPayload(Undef, Undef, Undef)), GoodSig>>),
      Jwt(<<Seg(Header(Str("RS256"), Str("JWS"), Str("kid1"))),
            Seg(TimedPayload(Undef, Undef, Undef)), GoodSig>>),
      Jwt(<<Seg(GoodHeader),
            Seg(Payload(Undef, Str("user-1"), Str("app-1"), Undef, Undef, Undef, Undef)),
            GoodSig>>),
      Jwt(<<Seg(GoodHeader),
            Seg(Payload(Str(IssGoogle), Str(""), Str("app-1"), Undef, Undef, Undef, Undef)),
            GoodSig>>),
      Jwt(<<Seg(GoodHeader), Seg(TimedPayload(Undef, Undef, Undef)), SigSeg("", <<>>)>>),
      Jwt(<<Seg(GoodHeader), Seg(Null), GoodSig>>),
      Jwt(<<Seg(GoodHeader), Seg(Num(5)), GoodSig>>),
      Jwt(<<Seg(Header(Undef, Str("JWT"), Str("kid1"))), Seg(NotJson), GoodSig>>) }

ParseTokens == TimedTokens \cup ShapeTokens

(***************************************************************************)
(* JWKs and the providers' JWKS endpoints.  A JWK is an object; the cache  *)
(* and the handlers hold references to it, modelled as its index in        *)
(* JwkTable.  The base64url text of n and e is held with the bytes that    *)
(* Buffer.from(text, 'base64url') makes of it.                             *)
(***************************************************************************)
\* OAUTH_PROVIDERS (server.js 16-35): provider -> issuer
OAUTH_PROVIDERS ==
    [google |-> "https://accounts.google.com",
     facebook |-> "https://www.facebook.com",
     apple |-> "https://appleid.apple.com"]
ProviderOrder == <<"google", "facebook", "apple">>

\* JWK_CACHE_TTL (server.js 39), milliseconds
JWK_CACHE_TTL == 3600000

\* len bytes: first, then (i * mul + add) mod 256 at position i
Pattern(len, first, mul, add) ==
    Array([i \in 1..len |-> IF i = 1 THEN first ELSE (i * mul + add) % 256], len)

JwkOf(kid, kty, use, alg, n, e) ==
    Obj([kid |-> Str(kid), kty |-> kty, use |-> use, alg |-> alg, n |-> n, e |-> e])
Rsa(kid, name, bytes) ==
    JwkOf(kid, Str("RSA"), Str("sig"), Str("RS256"), B64([name |-> name], bytes),
          B64([name |-> "AQAB"], <<1, 0, 1>>))

JwkTable ==
    << Rsa("kid1", "n1", Pattern(256, 195, 37, 11)),    \* 2048-bit modulus
       Rsa("kid1", "n2", Pattern(256, 0, 41, 7)),       \* kid1 after a rotation:
                                                        \* 256 bytes, leading zero byte
       Rsa("kid2", "n3", Pattern(256, 0, 37, 11)),      \* 256 bytes, leading zero byte
       JwkOf("kid3", Str("EC"), Str("sig"), Str("ES256"),
             B64([name |-> "n4"], Pattern(256, 195, 37, 11)),
             B64([name |-> "AQAB"], <<1, 0, 1>>)),
       JwkOf("kid4", Str("RSA"), Str("enc"), Str("RS256"),
             B64([name |-> "n5"], Pattern(256, 195, 37, 11)),
             B64([name |-> "AQAB"], <<1, 0, 1>>)),
       Rsa("kid5", "n6", Pattern(128, 195, 37, 11)),    \* 1024-bit modulus
       JwkOf("kid6", Str("RSA"), Str("sig"), Undef,
             B64([name |-> "n7"], Pattern(256, 195, 37, 11)),
             B64([name |-> "AQAB"], <<1, 0, 1>>)),
       Rsa("kid7", "n8", Pattern(512, 195, 37, 11)),    \* 4096-bit modulus
       JwkOf("kid8", Str("RSA"), Str("sig"), Str("RS256"), Undef,
             B64([name |-> "AQAB"], <<1, 0, 1>>)),
       Rsa("kid9", "n10", Pattern(256, 1, 37, 11)),     \* 256 bytes, 2041 bits
       Rsa("x_kid1", "n11", Pattern(256, 195, 41, 3)) >> \* a kid holding '_'
Jwk(id) == JwkTable[id]

\* what axios.get(jwksUri) settles with: a rejection carrying error.code, one
\* carrying error.response, one carrying neither (a timeout), or a response
\* whose data is absent, lacks keys, or holds keys
JwksResponses ==
    { [k |-> "ENOTFOUND", keys |-> <<>>], [k |-> "http", keys |-> <<>>],
      [k |-> "timeout", keys |-> <<>>], [k |-> "nodata", keys |-> <<>>],
      [k |-> "nokeys", keys |-> <<>>],
      [k |-> "keys", keys |-> <<1, 3, 4, 5, 6, 7, 8, 9, 10, 11>>],
      [k |-> "keys", keys |-> <<2, 3>>] }

MsgUnsupportedProvider == <<"Unsupported", "OAuth", "provider">>
MsgUnableToConnect == <<"Unable", "to", "connect", "to", "JWK", "endpoint">>
MsgFetchFailed == <<"JWK", "fetch", "failed">>
MsgTimeout == <<"timeout", "of", "10000ms", "exceeded">>
MsgNoKeysArray == <<"Invalid", "JWKS", "response", ":", "missing", "keys", "array">>
MsgJwkNotFound == <<"JWK", "not", "found", "for", "keyId">>
MsgJwkFields == <<"Invalid", "JWK", ":", "missing", "required", "fields">>
MsgKeyType == <<"Unsupported", "key", "type">>
MsgKeyUse == <<"Invalid", "key", "use">>
MsgRsaFields == <<"Invalid", "RSA", "JWK", ":", "missing", "modulus", "or", "exponent">>
MsgKeySize == <<"Insufficient", "key", "size">>

\* the least key size fetchJWK accepts, bits (server.js 168)
MinKeySize == 2048

\* cacheKey (server.js 115)
CacheKey(provider, keyId) == provider \o "_" \o keyId

\* the freshness test of the lookup (server.js 118)
FreshInclusive(entry, nowMs) == nowMs - entry.timestamp <= JWK_CACHE_TTL
Fresh(entry, nowMs) == nowMs - entry.timestamp < JWK_CACHE_TTL

\* fetchJWK up to its await (server.js 114-131): a cached key, an error, or
\* the JWKS request going out
FetchLookup(cache, provider, keyId, nowMs) ==
    LET ck == CacheKey(provider, keyId)
    IN  IF ck \in DOMAIN cache /\ Fresh(cache[ck], nowMs)
        THEN [k |-> "hit", jwk |-> cache[ck].jwk]
        ELSE IF provider \notin DOMAIN OAUTH_PROVIDERS
        THEN [k |-> "err", err |-> MsgUnsupportedProvider]
        ELSE [k |-> "fetch"]

\* keySize (server.js 166-167)
KeySize(jwk) == Len(Get(jwk, "n").bytes) * 8

\* the validation of the located key (server.js 149-170)
ValidateJwk(jwk) ==
    IF ~Truthy(Get(jwk, "kty")) \/ ~Truthy(Get(jwk, "use")) \/ ~Truthy(Get(jwk, "alg"))
    THEN Err(MsgJwkFields)
    ELSE IF Get(jwk, "kty") # Str("RSA") THEN Err(MsgKeyType)
    ELSE IF Get(jwk, "use") # Str("sig") THEN Err(MsgKeyUse)
    ELSE IF ~Truthy(Get(jwk, "n")) \/ ~Truthy(Get(jwk, "e")) THEN Err(MsgRsaFields)
    ELSE IF KeySize(jwk) < MinKeySize THEN Err(MsgKeySize)
    ELSE Ok(jwk)

\* fetchJWK from the settling of axios.get to its return or throw
\* (server.js 131-190): Ok(index of the key) or the error thrown
FetchOutcome(resp, keyId) ==
    IF resp.k = "ENOTFOUND" THEN Err(MsgUnableToConnect)
    ELSE IF resp.k = "http" THEN Err(MsgFetchFailed)
    ELSE IF resp.k = "timeout" THEN Err(MsgTimeout)
    ELSE IF resp.k \in {"nodata", "nokeys"} THEN Err(MsgNoKeysArray)
    ELSE LET found == {i \in 1..Len(resp.keys) :
                          Get(Jwk(resp.keys[i]), "kid") = Str(keyId)}
         IN  IF found = {} THEN Err(MsgJwkNotFound)
             ELSE LET id == resp.keys[CHOOSE i \in found : \A j \in found : i <= j]
                      v == ValidateJwk(Jwk(id))
                  IN  IF v.ok THEN Ok(id) ELSE v

\* a store that replaces the key of an entry and keeps its old timestamp
CachePutTorn(cache, ck, entry) ==
    [x \in DOMAIN cache \cup {ck} |->
        IF x # ck THEN cache[x]
        ELSE IF ck \in DOMAIN cache
        THEN [jwk |-> entry.jwk, timestamp |-> cache[ck].timestamp]
        ELSE entry]

\* jwkCache.set(cacheKey, {jwk, timestamp}) (server.js 173-176)
CachePut(cache, ck, entry) ==
    [x \in DOMAIN cache \cup {ck} |-> IF x = ck THEN entry ELSE cache[x]]
EmptyCache == [x \in {} |-> 0]

\* a fetchJWK that drops the entry of its key when it fails
CacheAfterEvicting(cache, provider, keyId, o, nowMs) ==
    IF o.ok THEN CachePut(cache, CacheKey(provider, keyId),
                          [jwk |-> o.val, timestamp |-> nowMs])
    ELSE [x \in DOMAIN cache \ {CacheKey(provider, keyId)} |-> cache[x]]

\* the cache after fetchJWK has settled with outcome o
CacheAfter(cache, provider, keyId, o, nowMs) ==
    IF o.ok THEN CachePut(cache, CacheKey(provider, keyId),
                          [jwk |-> o.val, timestamp |-> nowMs])
    ELSE cache

(***************************************************************************)
(* The encoders of server.js: validateDecimalString, jwkToCircuitFormat,   *)
(* getProviderFromIssuer, hexToFieldArray, the signature chunks.           *)
(***************************************************************************)
\* a validateDecimalString without the range check
validateDecimalStringNoRange(value, fieldName) ==
    IF ~IsString(value) THEN Err(<<fieldName, "must", "be", "a", "string">>)
    ELSE IF value.t # "dec" \/ ~IsDigits(value.c)
         THEN Err(<<fieldName, "must", "contain", "only", "digits">>)
    ELSE Ok(value)

\* validateDecimalString(value, fieldName) with maxBits = 256
\* (server.js 237-255)
validateDecimalString(value, fieldName) ==
    IF ~IsString(value) THEN Err(<<fieldName, "must", "be", "a", "string">>)
    ELSE IF value.t # "dec" \/ ~IsDigits(value.c)
         THEN Err(<<fieldName, "must", "contain", "only", "digits">>)
    ELSE IF BigLess(MaxValue256, BigOfDigits(value.c))
         THEN Err(<<fieldName, "exceeds", "maximum", "256-bit", "value">>)
    ELSE Ok(value)

\* maxEpoch.toString() (server.js 484): a string is itself, a number its
\* decimal text
ToStringJs(v) == IF v.t = "num" THEN Dec(IntToString(v.n)) ELSE v

\* the signed 32-bit integer << and | produce from four bytes, b0 the least
\* significant: a top byte of 128 or more sets the sign bit
Int32OfBytes(b0, b1, b2, b3) ==
    b0 + b1 * 256 + b2 * 65536 + (IF b3 >= 128 THEN b3 - 256 ELSE b3) * 16777216

\* the chunk the inner loop builds from the bytes at i .. i+3, i counted
\* from 1 (server.js 201-204, 519-522)
Chunk(bytes, i) ==
    LET B(j) == IF i + j <= Len(bytes) THEN bytes[i + j] ELSE 0
    IN  Int32OfBytes(B(0), B(1), B(2), B(3))

\* the chunk strings of a buffer, before padding (server.js 200-206, 518-524)
Chunks(bytes) ==
    Array([k \in 1..((Len(bytes) + 3) \div 4) |-> IntToString(Chunk(bytes, 4 * k - 3))],
          (Len(bytes) + 3) \div 4)

\* while (length < 64) push('0'), then slice(0, 64)
\* (server.js 209-211 and 221, 525-527 and 541)
PadSlice64(chunks) ==
    Array([k \in 1..64 |-> IF k <= Len(chunks) THEN chunks[k] ELSE <<"0">>], 64)

\* exponent = (exponent << 8) | eBuffer[i] over the buffer (server.js 215-218)
Exponent(bytes) ==
    LET f[i \in 0..Len(bytes)] ==
            IF i = 0 THEN 0
            ELSE LET low24 == f[i - 1] % 16777216
                 IN  Int32OfBytes(bytes[i], low24 % 256, (low24 \div 256) % 256,
                                  low24 \div 65536)
    IN  f[Len(bytes)]

\* jwkToCircuitFormat (server.js 194-224)
jwkToCircuitFormat(jwk) ==
    [modulus |-> PadSlice64(Chunks(Get(jwk, "n").bytes)),
     exponent |-> IntToString(Exponent(Get(jwk, "e").bytes))]

\* what may follow an issuer a provider is configured with, in the issuers
\* the model draws from
IssuerSuffixes == {"", ".evil.example"}
\* issuer.startsWith(prefix), for the issuers the model draws from
StartsWith(s, prefix) == \E x \in IssuerSuffixes : s = prefix \o x

\* getProviderFromIssuer (server.js 227-234)
getProviderFromIssuer(issuer) ==
    IF issuer.t # "str"
    THEN Err(<<"issuer.startsWith", "is", "not", "a", "function">>)
    ELSE LET hits == {i \in 1..Len(ProviderOrder) :
                         \/ issuer.s = OAUTH_PROVIDERS[ProviderOrder[i]]
                         \/ StartsWith(issuer.s, OAUTH_PROVIDERS[ProviderOrder[i]])}
         IN  IF hits = {} THEN Err(<<"Unsupported", "issuer", ":", issuer.s>>)
             ELSE Ok(ProviderOrder[CHOOSE i \in hits : \A j \in hits : i <= j])

\* Buffer.prototype.toString('hex'): two lower-case digits a byte
HexDigits ==
    <<"0", "1", "2", "3", "4", "5", "6", "7", "8", "9", "a", "b", "c", "d", "e", "f">>
ToHex(bytes) ==
    Array([i \in 1..(2 * Len(bytes)) |->
              IF i % 2 = 1 THEN HexDigits[(bytes[(i + 1) \div 2] \div 16) + 1]
              ELSE HexDigits[(bytes[i \div 2] % 16) + 1]], 2 * Len(bytes))

\* parseInt(text, 16) of one or two hexadecimal digits
HexVal(ch) == (CHOOSE i \in 1..16 : HexDigits[i] = ch) - 1
ParseHex(text) ==
    IF Len(text) = 1 THEN HexVal(text[1]) ELSE HexVal(text[1]) * 16 + HexVal(text[2])

\* a hexToFieldArray that pads behind the bytes (push instead of unshift)
hexToFieldArrayPadBehind(hexString) ==
    LET count == Len(hexString) \div 2
        Byte(k) == ParseHex(<<hexString[2 * k - 1], hexString[2 * k]>>)
    IN  Array([k \in 1..32 |-> IF k <= count THEN IntToString(Byte(k)) ELSE <<"0">>], 32)

\* hexToFieldArray(hexString) with arraySize = 32 (server.js 258-274): the
\* 0x prefix dropped, a byte from every two digits, zero bytes in front up
\* to 32, each byte's decimal text
hexToFieldArray(hexString) ==
    LET off == IF Len(hexString) >= 2 /\ hexString[1] = "0" /\ hexString[2] = "x"
               THEN 2 ELSE 0
        digits == Len(hexString) - off
        count == (digits + 1) \div 2
        Byte(k) == IF 2 * k <= digits
                   THEN ParseHex(<<hexString[off + 2 * k - 1], hexString[off + 2 * k]>>)
                   ELSE ParseHex(<<hexString[off + 2 * k - 1]>>)
        pad == IF count < 32 THEN 32 - count ELSE 0
        Padded(j) == IF j <= pad THEN 0 ELSE Byte(j - pad)
    IN  Array([k \in 1..32 |-> IntToString(Padded(pad + count - 32 + k))], 32)

(***************************************************************************)
(* Data of the /prove model: keys, nonces, tokens with the real base64url  *)
(* text of their JSON, and the SHA-256 digests of the texts the handler    *)
(* hashes.                                                                 *)
(***************************************************************************)
RawSeg(raw, dec) == [raw |-> raw, dec |-> dec]
\* the files the handler requires (server.js 551-552)
BuildPaths == {"build/zklogin_mys_js/zklogin_mys.wasm", "build/zklogin_mys_final.zkey"}

\* extendedEphemeralPublicKey strings: base64 text and the bytes it decodes
\* to (server.js 314): flag byte + 32 key bytes, 32 raw key bytes, 31 bytes
EphKey33 == B64("ABE9WneUsc7rCCVCX3yZttPwDSpHZIGeu9j1Ei9MaYaj", <<0>> \o Pattern(32, 17, 29, 3))
EphKey32 == B64("ET1ad5SxzusIJUJffJm20/ANKkdkgZ672PUSL0xphqM=", Pattern(32, 17, 29, 3))
EphKey31 == B64("ET1ad5SxzusIJUJffJm20/ANKkdkgZ672PUSL0xphg==", Pattern(31, 17, 29, 3))

\* nonce claims: the base64url text of 20 bytes (server.js 509-513)
NonceA == B64("Bx8sOUZTYG16h5ShrrvI1eLv_Ak", Pattern(20, 7, 13, 5))
NonceP == B64("CyU2R1hpeoucrb7P4PECEyQ1Rlc", Pattern(20, 11, 17, 3))
NonceO == B64("Ey9GXXSLornQ5_4VLENacYifts0", Pattern(20, 19, 23, 1))
NonceOther == B64("F0lmg6C92vcUMU5riKXC3_wZNlM", Pattern(20, 23, 29, 15))

\* a 256-byte RS256 signature segment and its bytes (server.js 516)
PipelineSig ==
    SigSeg("CccifdgzjulEn_pVsAtmwRx30i2I4z6Z9E-qBWC7FnHMJ4LdOJPuSaT_WrUQ" \o
           "a8YhfNcyjehDnvlUrwplwBt20SyH4j2Y806pBF-6FXDLJoHcN5LtSKP-WbQPasUge9YxjO" \o
           "dCnfhTrglkvxp10CuG4TyX8k2oA165FG_KJYDbNpHsR6L9WLMOacQfetUwi-ZBnPdSrQhj" \o
           "vhl0zyqF4DuW8UynAl24E27JJH_aNZDrRqH8V7INaMMeedQviuVAm_ZRrAdivRhzzimE3z" \o
           "qV8EumAVy3Em3II37ZNI_qRaD7VrEMZ8IdeNMuieQ_mvVQqwZhvBdyzSiD3jmU70qlAFu2EQ",
           Pattern(256, 9, 91, 17))

\* the token of the base request: nonce bound to (EphKey33, 10, 777)
TokenA ==
    Jwt(<<RawSeg("eyJhbGciOiJSUzI1NiIsInR5cCI6IkpXVCIsImtpZCI6ImtpZDEifQ",
                 Header(Str("RS256"), Str("JWT"), Str("kid1"))),
          RawSeg("eyJpc3MiOiJodHRwczovL2FjY291bnRzLmdvb2dsZS5jb20iLCJzdWIiOiJ1c2Vy" \o
                 "LTEiLCJhdWQiOiJhcHAtMSIsImV4cCI6MjAwMDAwMDAwMCwibm9uY2UiOiJCeDhz" \o
                 "T1VaVFlHMTZoNVNocnJ2STFlTHZfQWsifQ",
                 Payload(Str("https://accounts.google.com"), Str("user-1"), Str("app-1"), Num(2000000000), Undef, Undef, NonceA)),
          PipelineSig>>)
\* nonce bound to (EphKey33, 10, the field prime)
TokenP ==
    Jwt(<<RawSeg("eyJhbGciOiJSUzI1NiIsInR5cCI6IkpXVCIsImtpZCI6ImtpZDEifQ",
                 Header(Str("RS256"), Str("JWT"), Str("kid1"))),
          RawSeg("eyJpc3MiOiJodHRwczovL2FjY291bnRzLmdvb2dsZS5jb20iLCJzdWIiOiJ1c2Vy" \o
                 "LTEiLCJhdWQiOiJhcHAtMSIsImV4cCI6MjAwMDAwMDAwMCwibm9uY2UiOiJDeVUy" \o
                 "UjFocGVvdWNyYjdQNFBFQ0V5UTFSbGMifQ",
                 Payload(Str("https://accounts.google.com"), Str("user-1"), Str("app-1"), Num(2000000000), Undef, Undef, NonceP)),
          PipelineSig>>)
\* nonce bound to (EphObj, 10, 777)
TokenO ==
    Jwt(<<RawSeg("eyJhbGciOiJSUzI1NiIsInR5cCI6IkpXVCIsImtpZCI6ImtpZDEifQ",
                 Header(Str("RS256"), Str("JWT"), Str("kid1"))),
          RawSeg("eyJpc3MiOiJodHRwczovL2FjY291bnRzLmdvb2dsZS5jb20iLCJzdWIiOiJ1c2Vy" \o
                 "LTEiLCJhdWQiOiJhcHAtMSIsImV4cCI6MjAwMDAwMDAwMCwibm9uY2UiOiJFeTlH" \o
                 "WFhTTG9yblE1XzRWTEVOYWNZaWZ0czAifQ",
                 Payload(Str("https://accounts.google.com"), Str("user-1"), Str("app-1"), Num(2000000000), Undef, Undef, NonceO)),
          PipelineSig>>)
\* a nonce bound to no request of the model
TokenOther ==
    Jwt(<<RawSeg("eyJhbGciOiJSUzI1NiIsInR5cCI6IkpXVCIsImtpZCI6ImtpZDEifQ",
                 Header(Str("RS256"), Str("JWT"), Str("kid1"))),
          RawSeg("eyJpc3MiOiJodHRwczovL2FjY291bnRzLmdvb2dsZS5jb20iLCJzdWIiOiJ1c2Vy" \o
                 "LTEiLCJhdWQiOiJhcHAtMSIsImV4cCI6MjAwMDAwMDAwMCwibm9uY2UiOiJGMGxt" \o
                 "ZzZDOTJ2Y1VNVTVyaUtYQzNfd1pObE0ifQ",
                 Payload(Str("https://accounts.google.com"), Str("user-1"), Str("app-1"), Num(2000000000), Undef, Undef, NonceOther)),
          PipelineSig>>)
\* no nonce claim
TokenNoNonce ==
    Jwt(<<RawSeg("eyJhbGciOiJSUzI1NiIsInR5cCI6IkpXVCIsImtpZCI6ImtpZDEifQ",
                 Header(Str("RS256"), Str("JWT"), Str("kid1"))),
          RawSeg("eyJpc3MiOiJodHRwczovL2FjY291bnRzLmdvb2dsZS5jb20iLCJzdWIiOiJ1c2Vy" \o
                 "LTEiLCJhdWQiOiJhcHAtMSIsImV4cCI6MjAwMDAwMDAwMH0",
                 Payload(Str("https://accounts.google.com"), Str("user-1"), Str("app-1"), Num(2000000000), Undef, Undef, Undef)),
          PipelineSig>>)
\* exp long past
TokenExpired ==
    Jwt(<<RawSeg("eyJhbGciOiJSUzI1NiIsInR5cCI6IkpXVCIsImtpZCI6ImtpZDEifQ",
                 Header(Str("RS256"), Str("JWT"), Str("kid1"))),
          RawSeg("eyJpc3MiOiJodHRwczovL2FjY291bnRzLmdvb2dsZS5jb20iLCJzdWIiOiJ1c2Vy" \o
                 "LTEiLCJhdWQiOiJhcHAtMSIsImV4cCI6MSwibm9uY2UiOiJCeDhzT1VaVFlHMTZo" \o
                 "NVNocnJ2STFlTHZfQWsifQ",
                 Payload(Str("https://accounts.google.com"), Str("user-1"), Str("app-1"), Num(1), Undef, Undef, NonceA)),
          PipelineSig>>)
\* an issuer no provider is configured with
TokenBadIss ==
    Jwt(<<RawSeg("eyJhbGciOiJSUzI1NiIsInR5cCI6IkpXVCIsImtpZCI6ImtpZDEifQ",
                 Header(Str("RS256"), Str("JWT"), Str("kid1"))),
          RawSeg("eyJpc3MiOiJodHRwczovL2V2aWwuZXhhbXBsZSIsInN1YiI6InVzZXItMSIsImF1" \o
                 "ZCI6ImFwcC0xIiwiZXhwIjoyMDAwMDAwMDAwLCJub25jZSI6IkJ4OHNPVVpUWUcx" \o
                 "Nmg1U2hycnZJMWVMdl9BayJ9",
                 Payload(Str("https://evil.example"), Str("user-1"), Str("app-1"), Num(2000000000), Undef, Undef, NonceA)),
          PipelineSig>>)
\* an issuer that is a number
TokenNumIss ==
    Jwt(<<RawSeg("eyJhbGciOiJSUzI1NiIsInR5cCI6IkpXVCIsImtpZCI6ImtpZDEifQ",
                 Header(Str("RS256"), Str("JWT"), Str("kid1"))),
          RawSeg("eyJpc3MiOjEyMywic3ViIjoidXNlci0xIiwiYXVkIjoiYXBwLTEiLCJleHAiOjIw" \o
                 "MDAwMDAwMDAsIm5vbmNlIjoiQng4c09VWlRZRzE2aDVTaHJydkkxZUx2X0FrIn0",
                 Payload(Num(123), Str("user-1"), Str("app-1"), Num(2000000000), Undef, Undef, NonceA)),
          PipelineSig>>)
\* no kid in the header
TokenNoKid ==
    Jwt(<<RawSeg("eyJhbGciOiJSUzI1NiIsInR5cCI6IkpXVCJ9",
                 Header(Str("RS256"), Str("JWT"), Undef)),
          RawSeg("eyJpc3MiOiJodHRwczovL2FjY291bnRzLmdvb2dsZS5jb20iLCJzdWIiOiJ1c2Vy" \o
                 "LTEiLCJhdWQiOiJhcHAtMSIsImV4cCI6MjAwMDAwMDAwMCwibm9uY2UiOiJCeDhz" \o
                 "T1VaVFlHMTZoNVNocnJ2STFlTHZfQWsifQ",
                 Payload(Str("https://accounts.google.com"), Str("user-1"), Str("app-1"), Num(2000000000), Undef, Undef, NonceA)),
          PipelineSig>>)
\* a kid whose key is 1024 bits
TokenKid5 ==
    Jwt(<<RawSeg("eyJhbGciOiJSUzI1NiIsInR5cCI6IkpXVCIsImtpZCI6ImtpZDUifQ",
                 Header(Str("RS256"), Str("JWT"), Str("kid5"))),
          RawSeg("eyJpc3MiOiJodHRwczovL2FjY291bnRzLmdvb2dsZS5jb20iLCJzdWIiOiJ1c2Vy" \o
                 "LTEiLCJhdWQiOiJhcHAtMSIsImV4cCI6MjAwMDAwMDAwMCwibm9uY2UiOiJCeDhz" \o
                 "T1VaVFlHMTZoNVNocnJ2STFlTHZfQWsifQ",
                 Payload(Str("https://accounts.google.com"), Str("user-1"), Str("app-1"), Num(2000000000), Undef, Undef, NonceA)),
          PipelineSig>>)

\* crypto.createHash('sha256').update(text, 'utf8').digest() for the texts
\* the model hashes (server.js 491, 498, 501, 504-506)
Sha256Table ==
    ("user-2app-1https://accounts.google.com12345" :>
      <<239, 240, 73, 66, 66, 255, 197, 202, 230, 65, 252, 42, 3, 13, 95,
        35, 201, 248, 100, 196, 131, 138, 89, 147, 106, 247, 123, 103, 241,
        107, 196, 59>>) @@
    ("user-1app-2https://accounts.google.com12345" :>
      <<184, 43, 185, 16, 81, 194, 226, 176, 251, 143, 185, 8, 126, 171, 37,
        185, 130, 7, 163, 101, 174, 165, 231, 105, 177, 123, 110, 18, 130,
        154, 72, 9>>) @@
    ("user-1" :>
      <<198, 194, 137, 228, 158, 156, 5, 178, 20, 88, 96, 56, 123, 115, 188,
        177, 141, 244, 63, 176, 154, 30, 74, 74, 151, 19, 199, 108, 136, 187,
        84, 27>>) @@
    ("https://accounts.google.com" :>
      <<137, 168, 0, 10, 104, 215, 89, 198, 139, 250, 234, 181, 5, 109, 103,
        52, 46, 151, 100, 53, 17, 146, 62, 99, 112, 45, 165, 138, 154, 172,
        143, 56>>) @@
    ("user-1app-1https://accounts.google.com12345" :>
      <<216, 62, 63, 97, 246, 7, 99, 152, 238, 78, 18, 83, 165, 132, 200,
        166, 134, 226, 182, 95, 23, 13, 78, 39, 85, 214, 100, 6, 241, 141,
        102, 53>>) @@
    ("eyJhbGciOiJSUzI1NiIsInR5cCI6IkpXVCIsImtpZCI6ImtpZDEifQ.eyJpc" \o
      "3MiOiJodHRwczovL2FjY291bnRzLmdvb2dsZS5jb20iLCJzdWIiOiJ1c2VyL" \o
      "TEiLCJhdWQiOiJhcHAtMSIsImV4cCI6MjAwMDAwMDAwMCwibm9uY2UiOiJCe" \o
      "DhzT1VaVFlHMTZoNVNocnJ2STFlTHZfQWsifQ" :>
      <<71, 226, 154, 227, 137, 202, 57, 219, 117, 155, 230, 84, 131, 11,
        168, 110, 248, 75, 0, 176, 188, 79, 163, 218, 121, 23, 12, 222, 49,
        101, 83, 116>>) @@
    ("eyJhbGciOiJSUzI1NiIsInR5cCI6IkpXVCIsImtpZCI6ImtpZDEifQ.eyJpc" \o
      "3MiOiJodHRwczovL2FjY291bnRzLmdvb2dsZS5jb20iLCJzdWIiOiJ1c2VyL" \o
      "TEiLCJhdWQiOiJhcHAtMSIsImV4cCI6MjAwMDAwMDAwMCwibm9uY2UiOiJDe" \o
      "VUyUjFocGVvdWNyYjdQNFBFQ0V5UTFSbGMifQ" :>
      <<131, 203, 126, 217, 126, 138, 73, 214, 197, 82, 151, 210, 249, 8,
        214, 94, 51, 143, 1, 233, 3, 53, 17, 188, 202, 232, 33, 55, 173, 152,
        92, 60>>) @@
    ("eyJhbGciOiJSUzI1NiIsInR5cCI6IkpXVCIsImtpZCI6ImtpZDEifQ.eyJpc" \o
      "3MiOiJodHRwczovL2FjY291bnRzLmdvb2dsZS5jb20iLCJzdWIiOiJ1c2VyL" \o
      "TEiLCJhdWQiOiJhcHAtMSIsImV4cCI6MjAwMDAwMDAwMCwibm9uY2UiOiJFe" \o
      "TlHWFhTTG9yblE1XzRWTEVOYWNZaWZ0czAifQ" :>
      <<70, 208, 31, 25, 166, 211, 194, 17, 250, 96, 243, 81, 101, 155, 141,
        191, 207, 68, 146, 95, 249, 206, 95, 159, 9, 169, 111, 134, 248, 221,
        137, 92>>) @@
    ("eyJhbGciOiJSUzI1NiIsInR5cCI6IkpXVCIsImtpZCI6ImtpZDEifQ.eyJpc" \o
      "3MiOiJodHRwczovL2FjY291bnRzLmdvb2dsZS5jb20iLCJzdWIiOiJ1c2VyL" \o
      "TEiLCJhdWQiOiJhcHAtMSIsImV4cCI6MjAwMDAwMDAwMCwibm9uY2UiOiJGM" \o
      "GxtZzZDOTJ2Y1VNVTVyaUtYQzNfd1pObE0ifQ" :>
      <<75, 118, 196, 132, 84, 240, 18, 189, 53, 32, 146, 67, 70, 9, 136,
        249, 195, 80, 160, 157, 216, 15, 162, 69, 192, 41, 46, 126, 220, 184,
        214, 27>>)
Sha256(text) == Sha256Table[text]

\* BigInt(`0x${hex}`) of a digest, as its decimal digits (server.js 504-506)
BigOfDigestTable ==
    (<<239, 240, 73, 66, 66, 255, 197, 202, 230, 65, 252, 42, 3, 13, 95,
        35, 201, 248, 100, 196, 131, 138, 89, 147, 106, 247, 123, 103, 241,
        107, 196, 59>> :>
      <<1, 0, 8, 5, 2, 7, 3, 1, 9, 7, 2, 0, 8, 4, 3, 1, 0, 4, 8, 0, 9, 4, 9,
        2, 3, 4, 9, 3, 4, 6, 5, 9, 3, 0, 9, 4, 1, 5, 7, 4, 1, 1, 3, 0, 1, 4,
        9, 9, 5, 1, 1, 0, 7, 6, 7, 2, 0, 9, 9, 0, 8, 6, 3, 8, 0, 1, 0, 4, 3,
        0, 3, 4, 8, 1, 7, 5, 9, 5>>) @@
    (<<184, 43, 185, 16, 81, 194, 226, 176, 251, 143, 185, 8, 126, 171, 37,
        185, 130, 7, 163, 101, 174, 165, 231, 105, 177, 123, 110, 18, 130,
        154, 72, 9>> :>
      <<8, 3, 3, 0, 2, 8, 1, 5, 8, 2, 6, 1, 5, 0, 2, 5, 5, 7, 9, 0, 6, 9, 4,
        0, 2, 5, 9, 8, 7, 6, 1, 3, 7, 1, 0, 2, 5, 1, 8, 8, 4, 8, 5, 9, 6, 5,
        5, 4, 3, 4, 7, 7, 7, 6, 2, 0, 1, 3, 0, 7, 4, 5, 2, 4, 8, 4, 0, 4, 1,
        2, 5, 4, 0, 3, 1, 4, 5>>) @@
    (<<216, 62, 63, 97, 246, 7, 99, 152, 238, 78, 18, 83, 165, 132, 200,
        166, 134, 226, 182, 95, 23, 13, 78, 39, 85, 214, 100, 6, 241, 141,
        102, 53>> :>
      <<9, 7, 8, 0, 9, 5, 5, 7, 2, 6, 3, 0, 4, 6, 3, 3, 7, 6, 6, 6, 4, 7, 2,
        2, 9, 7, 7, 6, 7, 7, 4, 8, 7, 8, 2, 2, 1, 0, 9, 7, 9, 2, 3, 3, 3, 9,
        1, 1, 7, 0, 7, 4, 4, 4, 6, 3, 1, 6, 5, 4, 4, 8, 1, 5, 4, 6, 1, 1, 6,
        9, 8, 1, 9, 8, 0, 6, 9>>)
BigOfDigest(bytes) == BigOfDigestTable[bytes]
\* an extendedEphemeralPublicKey sent as an object with x and y
EphObj == Obj([x |-> Dec(<<"1", "2", "3">>), y |-> Dec(<<"4", "5", "6">>)])

\* the nonce the binding of (ephemeral key, maxEpoch, jwtRandomness) yields
\* (server.js 357), for the bindings the model's tokens are issued for; a
\* 32-byte key is the 33-byte key without its flag byte
NoNonce == [none |-> TRUE]
ExpectedNonce(key, maxEpoch, jwtRandomness) ==
    LET k == IF key = EphKey32 THEN EphKey33 ELSE key
        t == <<k, ToStringJs(maxEpoch), jwtRandomness>>
    IN  CASE t = <<EphKey33, Dec(<<"1", "0">>), Dec(<<"7", "7", "7">>)>> -> NonceA
          [] t = <<EphKey33, Dec(<<"1", "0">>), Dec(BigToString(FieldPrime))>> -> NonceP
          [] t = <<EphObj, Dec(<<"1", "0">>), Dec(<<"7", "7", "7">>)>> -> NonceO
          [] OTHER -> NoNonce

\* request bodies the model draws from: a valid one and its variants
BaseBody ==
    [jwt |-> TokenA, extendedEphemeralPublicKey |-> EphKey33,
     maxEpoch |-> Dec(<<"1", "0">>), jwtRandomness |-> Dec(<<"7", "7", "7">>),
     salt |-> Dec(<<"1", "2", "3", "4", "5">>), keyClaimName |-> Undef]
BadSalt == Dec(<<"1", "2", "a", "4", "5">>)
Requests ==
    << BaseBody,
       [BaseBody EXCEPT !.jwt = TokenOther],
       [BaseBody EXCEPT !.jwt = TokenNoNonce],
       [BaseBody EXCEPT !.salt = BadSalt],
       [BaseBody EXCEPT !.salt = Dec(<<"1">> \o BigToString(MaxValue256))],
       [BaseBody EXCEPT !.salt = Num(5)],
       [BaseBody EXCEPT !.salt = Dec(<<>>)],
       [BaseBody EXCEPT !.jwtRandomness = Dec(<<"-", "1">>)],
       [BaseBody EXCEPT !.jwtRandomness = Dec(BigToString(FieldPrime)), !.jwt = TokenP],
       [BaseBody EXCEPT !.maxEpoch = Num(10)],
       [BaseBody EXCEPT !.maxEpoch = Dec(<<"1", ".", "5">>)],
       [BaseBody EXCEPT !.maxEpoch = Undef],
       [BaseBody EXCEPT !.jwt = TokenExpired, !.salt = BadSalt],
       [BaseBody EXCEPT !.jwt = TokenBadIss],
       [BaseBody EXCEPT !.jwt = TokenNoKid],
       [BaseBody EXCEPT !.jwt = TokenKid5, !.salt = BadSalt],
       [BaseBody EXCEPT !.extendedEphemeralPublicKey = EphObj, !.jwt = TokenO],
       [BaseBody EXCEPT !.extendedEphemeralPublicKey = Undef, !.salt = BadSalt],
       [BaseBody EXCEPT !.extendedEphemeralPublicKey = EphKey31],
       [BaseBody EXCEPT !.extendedEphemeralPublicKey = EphKey32],
       [BaseBody EXCEPT !.extendedEphemeralPublicKey = Obj([x |-> Dec(<<"1">>)])],
       [BaseBody EXCEPT !.jwt = Undef],
       [BaseBody EXCEPT !.keyClaimName = Str("email")],
       [BaseBody EXCEPT !.jwt = TokenNumIss] >>

(***************************************************************************)
(* The /prove pipeline of server.js (410-613) as functions of the request  *)
(* body: up to the key lookup, from the key to the circuit inputs, and     *)
(* the response.                                                           *)
(***************************************************************************)
MsgMissingKid ==
    <<"JWT", "header", "missing", "required", "kid", "(", "key", "ID", ")", "field">>
MsgMissingKey == <<"Missing", "extendedEphemeralPublicKey">>
MsgKeyFormat == <<"Invalid", "extendedEphemeralPublicKey", "format">>
MsgExtractFailed ==
    <<"Failed", "to", "extract", "ephemeral", "key", "coordinates", ":">>
MsgKeyLength ==
    <<"Invalid", "extended", "ephemeral", "public", "key", "length">>
MsgMissing(fieldName) == <<"Missing", fieldName>>
MsgMissingClaim(claim) == <<"JWT", "payload", "missing", "claim", ":", claim>>
MsgMissingNonce == <<"JWT", "payload", "missing", "nonce", "claim">>
MsgHashType ==
    <<"The", "\"data\"", "argument", "must", "be", "of", "type", "string">>
MsgBuildFiles ==
    <<"Circuit", "build", "files", "not", "found", ".", "Please", "run", ":",
      "npm", "run", "setup">>
MsgSubstring ==
    <<"extendedEphemeralPublicKey.substring", "is", "not", "a", "function">>
MsgProverFailed == <<"Error", "in", "template", "ZkLoginMYS">>

\* the decimal text of the BigInt whose big-endian bytes are given
BigBE(bytes) == [t |-> "bigint", be |-> bytes]

\* splitBigIntToChunks(value, 32, 4) (server.js 380-386) of a value given by
\* its big-endian bytes: the four 32-bit chunks of its low 128 bits, the
\* lowest first, each as its four bytes
SplitChunks(be) ==
    LET n == Len(be)
    IN  [i \in 1..4 |-> SubSeq(be, n - 4 * i + 1, n - 4 * i + 4)]

\* an extraction that puts the flag byte of a raw key behind the key
extractKeyFlagBehind(key) ==
    IF Len(key.bytes) \notin {32, 33} THEN Err(MsgExtractFailed \o MsgKeyLength)
    ELSE LET ext == IF Len(key.bytes) = 32 THEN key.bytes \o <<0>> ELSE key.bytes
         IN  Ok([x |-> SplitChunks(SubSeq(ext, 1, 17)),
                 y |-> SplitChunks(SubSeq(ext, 18, 33)),
                 xFull |-> BigBE(SubSeq(ext, 1, 17)),
                 yFull |-> BigBE(SubSeq(ext, 18, 33)),
                 extendedPubKeyBigInt |-> BigBE(ext),
                 originalBytes |-> ToHex(ext)])

\* extractEphemeralKeyCoordinates (server.js 309-408): the extended key is
\* the 33 bytes, or the 32 bytes behind a zero flag byte (361-362); xFull
\* and yFull are the parts of its big-endian value above and below bit 128
\* (367-374), x and y their chunks
extractEphemeralKeyCoordinates(key) ==
    IF Len(key.bytes) \notin {32, 33} THEN Err(MsgExtractFailed \o MsgKeyLength)
    ELSE LET ext == IF Len(key.bytes) = 32 THEN <<0>> \o key.bytes ELSE key.bytes
         IN  Ok([x |-> SplitChunks(SubSeq(ext, 1, 17)),
                 y |-> SplitChunks(SubSeq(ext, 18, 33)),
                 xFull |-> BigBE(SubSeq(ext, 1, 17)),
                 yFull |-> BigBE(SubSeq(ext, 18, 33)),
                 extendedPubKeyBigInt |-> BigBE(ext),
                 originalBytes |-> ToHex(ext)])

\* ephemeralPubKey (server.js 445-468)
EphemeralPubKey(key) ==
    IF ~Truthy(key) THEN Err(MsgMissingKey)
    ELSE IF IsString(key)
    THEN LET c == extractEphemeralKeyCoordinates(key)
         IN  IF c.ok THEN Ok([x |-> c.val.xFull, y |-> c.val.yFull]) ELSE c
    ELSE IF Truthy(Get(key, "x")) /\ Truthy(Get(key, "y"))
    THEN Ok([x |-> Get(key, "x"), y |-> Get(key, "y")])
    ELSE Err(MsgKeyFormat)

\* ValidateParams without the check of maxEpoch's text
ValidateParamsNoEpoch(b) ==
    IF ~Truthy(b.maxEpoch) THEN Err(MsgMissing("maxEpoch"))
    ELSE IF ~Truthy(b.jwtRandomness) THEN Err(MsgMissing("jwtRandomness"))
    ELSE IF ~Truthy(b.salt) THEN Err(MsgMissing("salt"))
    ELSE LET s == validateDecimalString(b.salt, "salt")
             r == validateDecimalString(b.jwtRandomness, "jwtRandomness")
         IN  IF ~s.ok THEN s
             ELSE IF ~r.ok THEN r
             ELSE Ok([salt |-> s.val, jwtRandomness |-> r.val,
                      maxEpoch |-> ToStringJs(b.maxEpoch)])

\* ValidateParams without the check of jwtRandomness's text
ValidateParamsNoRandomness(b) ==
    IF ~Truthy(b.maxEpoch) THEN Err(MsgMissing("maxEpoch"))
    ELSE IF ~Truthy(b.jwtRandomness) THEN Err(MsgMissing("jwtRandomness"))
    ELSE IF ~Truthy(b.salt) THEN Err(MsgMissing("salt"))
    ELSE LET s == validateDecimalString(b.salt, "salt")
             m == validateDecimalString(ToStringJs(b.maxEpoch), "maxEpoch")
         IN  IF ~s.ok THEN s
             ELSE IF ~m.ok THEN m
             ELSE Ok([salt |-> s.val, jwtRandomness |-> b.jwtRandomness,
                      maxEpoch |-> m.val])

\* the presence checks and validateDecimalString calls (server.js 471-484)
ValidateParams(b) ==
    IF ~Truthy(b.maxEpoch) THEN Err(MsgMissing("maxEpoch"))
    ELSE IF ~Truthy(b.jwtRandomness) THEN Err(MsgMissing("jwtRandomness"))
    ELSE IF ~Truthy(b.salt) THEN Err(MsgMissing("salt"))
    ELSE LET s == validateDecimalString(b.salt, "salt")
             r == validateDecimalString(b.jwtRandomness, "jwtRandomness")
             m == validateDecimalString(ToStringJs(b.maxEpoch), "maxEpoch")
         IN  IF ~s.ok THEN s
             ELSE IF ~r.ok THEN r
             ELSE IF ~m.ok THEN m
             ELSE Ok([salt |-> s.val, jwtRandomness |-> r.val, maxEpoch |-> m.val])

\* the handler up to fetchJWK (server.js 412-439): the parsed token, the
\* provider and the key id, or the error thrown
StageA(b, nowMs) ==
    LET p == parseJWT(b.jwt, nowMs \div 1000)
    IN  IF ~p.ok THEN p
        ELSE LET prov == getProviderFromIssuer(Get(p.val.payload, "iss"))
             IN  IF ~prov.ok THEN prov
                 ELSE IF ~Truthy(Get(p.val.header, "kid")) THEN Err(MsgMissingKid)
                 ELSE Ok([parsed |-> p.val, provider |-> prov.val,
                          keyId |-> Get(p.val.header, "kid").s])

\* addressSeed (server.js 504-506): the decimal text of the SHA-256 digest
\* of the four texts put one after the other
AddressSeed(subjectValue, aud, iss, salt) ==
    BigToString(BigOfDigest(Sha256(subjectValue \o aud \o iss \o salt)))

\* circuitInputs (server.js 486-546) once the parameters are validated
CircuitInputs(b, parsed, jwk, eph, v) ==
    LET payload == parsed.payload
        claim == IF b.keyClaimName = Undef THEN "sub" ELSE b.keyClaimName.s
        subjectValue == Get(payload, claim)
        nonce == Get(payload, "nonce")
        circuitJWK == jwkToCircuitFormat(jwk)
    IN  IF ~Truthy(subjectValue) THEN Err(MsgMissingClaim(claim))
        ELSE IF subjectValue.t # "str" THEN Err(MsgHashType)
        ELSE IF ~Truthy(nonce) THEN Err(MsgMissingNonce)
        ELSE Ok([addrSeed |->
                    AddressSeed(subjectValue.s, Get(payload, "aud").s,
                                Get(payload, "iss").s, Join(v.salt.c)),
                 issuerHash |-> hexToFieldArray(ToHex(Sha256(Get(payload, "iss").s))),
                 maxEpoch |-> v.maxEpoch.c,
                 jwkModulus |-> circuitJWK.modulus,
                 jwkExponent |-> circuitJWK.exponent,
                 jwtHash |->
                    hexToFieldArray(ToHex(Sha256(
                        parsed.raw.header \o "." \o parsed.raw.payload))),
                 jwtSignature |-> PadSlice64(Chunks(parsed.signature.bytes)),
                 jwtNonce |-> hexToFieldArray(ToHex(nonce.bytes)),
                 ephemeralPubKey |-> <<eph.x, eph.y>>,
                 jwtRandomness |-> v.jwtRandomness.c,
                 subjectHash |-> hexToFieldArray(ToHex(Sha256(subjectValue.s)))])

\* the handler from the key fetchJWK returned to circuitInputs
\* (server.js 440-546): the circuit inputs, or the error thrown
StageB(b, parsed, jwk) ==
    LET eph == EphemeralPubKey(b.extendedEphemeralPublicKey)
        v == ValidateParams(b)
    IN  IF ~eph.ok THEN eph
        ELSE IF ~v.ok THEN v
        ELSE CircuitInputs(b, parsed, jwk, eph.val, v.val)

(***************************************************************************)
(* Quiescent values of each group of variables, for the specifications     *)
(* that leave the group alone.                                             *)
(***************************************************************************)
NoRes == [none |-> TRUE]
ParseIdle == pTok = Undef /\ pNow = BaseSec /\ pRes = NoRes
ServerIdle == now = 0 /\ jwkCache = EmptyCache /\ buildFiles = {} /\ req = <<>>
CallIdle == call = <<>> /\ ret = <<>>
FileIdle ==
    /\ keysReady = FALSE /\ keyGenerationInProgress = FALSE
    /\ keyGenerationError = Null
    /\ disk = <<>> /\ running = 0 /\ freq = <<>>
ApplyIdle == arg = NoRes /\ out = NoRes

(***************************************************************************)
(* SpecParse: parseJWT applied once to a token of ParseTokens.             *)
(***************************************************************************)
InitParse ==
    /\ pTok \in ParseTokens
    /\ pNow \in BaseSec..(BaseSec + ClockSpan)
    /\ pRes = NoRes
    /\ ServerIdle /\ CallIdle /\ FileIdle /\ ApplyIdle

DoParse ==
    /\ pRes = NoRes
    /\ pRes' = parseJWT(pTok, pNow)
    /\ UNCHANGED <<pTok, pNow, serverVars, callVars, fileVars, applyVars>>

(***************************************************************************)
(* SpecResolve: concurrent fetchJWK calls (from /prove or from             *)
(* /debug/jwk/:provider/:keyId), the clock, and /debug/clear-cache.        *)
(***************************************************************************)
\* fetchJWK calls that may be in flight at once
NumCalls == 2
\* the clock advances at most this many times
MaxTicks == 2

CallIds == 1..NumCalls
\* the (provider, keyId) pairs the calls are made with
CallArgs ==
    {<<"google", "kid1">>, <<"google", "kid5">>, <<"github", "kid1">>}
\* pairs GET /debug/jwk/:provider/:keyId passes on (server.js 646-653): the
\* provider is any string of the URL
DebugArgs ==
    {<<"google", "x_kid1">>, <<"google_x", "kid1">>}
TickSteps == {1, JWK_CACHE_TTL - 1}
\* the instants the clock reaches in at most MaxTicks steps
ClockValues ==
    UNION {{a * (JWK_CACHE_TTL - 1) + b : b \in 0..(MaxTicks - a)} : a \in 0..MaxTicks}

\* what the handlers of SpecResolve never touch
ResolveFrame == UNCHANGED <<parseVars, buildFiles, req, fileVars, applyVars>>

\* an invocation of fetchJWK: where it stands, its arguments, the JWKS
\* requests it has sent and its local cached (server.js 116), NoRes when
\* jwkCache.get returned undefined
IdleCall ==
    [pc |-> "idle", provider |-> "", keyId |-> "", fetches |-> 0, cached |-> NoRes]
NoReturn ==
    [seq |-> 0, provider |-> "", keyId |-> "", fetches |-> 0, cached |-> NoRes,
     res |-> NoRes]

\* what the caller of fetchJWK is handed: the call's arguments, the JWKS
\* requests it sent, and the key returned or the error thrown; seq flips at
\* every return
Return(last, c, res) ==
    [seq |-> 1 - last.seq, provider |-> c.provider, keyId |-> c.keyId,
     fetches |-> c.fetches, cached |-> c.cached, res |-> res]

InitResolve ==
    /\ now = 0
    /\ jwkCache = EmptyCache
    /\ call = [c \in CallIds |-> IdleCall]
    /\ ret = NoReturn
    /\ buildFiles = {} /\ req = <<>>
    /\ ParseIdle /\ FileIdle /\ ApplyIdle

\* fetchJWK(provider, keyId) is called and runs to its first await, or to its
\* return or throw when it reaches none
\* (a new call takes the least free call id)
CallStart(c, provider, keyId) ==
    /\ call[c].pc = "idle"
    /\ \A d \in CallIds : d < c => call[d].pc # "idle"
    /\ LET l == FetchLookup(jwkCache, provider, keyId, now)
           ck == CacheKey(provider, keyId)
           base == [IdleCall EXCEPT !.provider = provider, !.keyId = keyId,
                                    !.cached = IF ck \in DOMAIN jwkCache
                                               THEN jwkCache[ck] ELSE NoRes]
       IN  CASE l.k = "hit" ->
                  ret' = Return(ret, base, Ok(l.jwk)) /\ UNCHANGED call
             [] l.k = "err" ->
                  ret' = Return(ret, base, Err(l.err)) /\ UNCHANGED call
             [] l.k = "fetch" ->
                  /\ call' = [call EXCEPT ![c] =
                                  [base EXCEPT !.pc = "fetching", !.fetches = 1]]
                  /\ UNCHANGED ret
    /\ UNCHANGED <<now, jwkCache>>
    /\ ResolveFrame

\* axios.get settles and fetchJWK runs to its return or throw
CallSettle(c, resp) ==
    /\ call[c].pc = "fetching"
    /\ LET o == FetchOutcome(resp, call[c].keyId)
       IN  /\ jwkCache' = CacheAfter(jwkCache, call[c].provider, call[c].keyId, o, now)
           /\ ret' = Return(ret, call[c], o)
    /\ call' = [call EXCEPT ![c] = IdleCall]
    /\ UNCHANGED now
    /\ ResolveFrame

\* Date.now() advances
Tick(d) ==
    /\ now + d \in ClockValues
    /\ now' = now + d
    /\ UNCHANGED <<jwkCache, call, ret>>
    /\ ResolveFrame

\* POST /debug/clear-cache (server.js 672-675)
ClearCache ==
    /\ jwkCache # EmptyCache
    /\ jwkCache' = EmptyCache
    /\ UNCHANGED <<now, call, ret>>
    /\ ResolveFrame

(***************************************************************************)
(* Spec: the /prove handler of server.js.  The handler is async: it runs   *)
(* without interruption from the request to await fetchJWK (or, on a cache *)
(* hit, to await fullProve), from the JWKS response to await fullProve,    *)
(* and from the prover's answer to the response.  req[i] is the position   *)
(* of one invocation and, once it has responded, its response.             *)
(***************************************************************************)
\* /prove requests that may be in flight at once
NumReq == 1
ReqIds == 1..NumReq

\* what axios.get settles with in this specification
ProveResponses ==
    {r \in JwksResponses : r.k = "ENOTFOUND" \/ (r.k = "keys" /\ Len(r.keys) > 0)}
\* what the prover may answer: a proof, or a rejection
ProveOutcomes == {"proof", "reject"}
\* the circuit computes validProof as a product of checks and constrains it
\* to no value (zklogin_mys.circom 184-229): fullProve also returns proofs
\* whose validProof is 0
ValidityOutcomes == {"proof", "invalid", "reject"}

\* an invocation keeps, across its awaits, the request (rid), what it
\* asked fetchJWK for and, once made, the circuit inputs
IdleReq ==
    [pc |-> "idle", rid |-> 0, provider |-> "", keyId |-> "", inputs |-> NoRes,
     res |-> NoRes]
Fetching(rid, a) ==
    [pc |-> "fetching", rid |-> rid, provider |-> a.provider, keyId |-> a.keyId,
     inputs |-> NoRes, res |-> NoRes]
\* await snarkjs.groth16.fullProve(circuitInputs, wasmPath, zkeyPath)
\* (server.js 559-563)
Proving(rid, a, inputs) ==
    [pc |-> "proving", rid |-> rid, provider |-> a.provider, keyId |-> a.keyId,
     inputs |-> inputs, res |-> NoRes]
Responded(rid, res) ==
    [pc |-> "done", rid |-> rid, provider |-> "", keyId |-> "", inputs |-> NoRes,
     res |-> res]

\* res.status(400).json({isValid: false, error: error.message}) of the catch
\* block (server.js 605-612); proved tells whether fullProve had been called
Failure(error, proved) ==
    [status |-> 400, isValid |-> FALSE, error |-> error, proved |-> proved]
\* res.json(response) (server.js 567-603): isValid is the literal true, and
\* publicSignals is what fullProve returned, of which the model keeps the
\* circuit's output validProof ("1" or "0")
Accepted(validProof) ==
    [status |-> 200, isValid |-> TRUE, error |-> <<>>, proved |-> TRUE,
     validProof |-> validProof]
Success == Accepted("1")

Free(r) == r.pc \in {"idle", "done"}
ServerFrame == UNCHANGED <<parseVars, callVars, fileVars, applyVars>>

InitServer ==
    /\ now = BaseSec * 1000
    /\ jwkCache = EmptyCache
    /\ buildFiles \in SUBSET BuildPaths
    /\ req = [i \in ReqIds |-> IdleReq]
    /\ ParseIdle /\ CallIdle /\ FileIdle /\ ApplyIdle

\* the keys fetchJWK can return
ValidKeys == {id \in 1..Len(JwkTable) : ValidateJwk(Jwk(id)).ok}
\* StageB for the requests and keys of the model (what it computes depends
\* on nothing else)
Computed ==
    [rid \in 1..Len(Requests), jwkId \in ValidKeys |->
        LET a == StageA(Requests[rid], BaseSec * 1000)
        IN  IF a.ok THEN StageB(Requests[rid], a.val.parsed, Jwk(jwkId)) ELSE a]

\* the handler from the key to await fullProve or to the error response
\* (server.js 440-563): the build files are looked for once the inputs are
\* made (551-556)
Continue(i, rid, a, jwkId) ==
    LET sb == Computed[rid, jwkId]
    IN  req' = [req EXCEPT ![i] =
                   IF ~sb.ok THEN Responded(rid, Failure(sb.err, FALSE))
                   ELSE IF buildFiles # BuildPaths
                   THEN Responded(rid, Failure(MsgBuildFiles, FALSE))
                   ELSE Proving(rid, a, sb.val)]

\* POST /prove arrives and the handler runs to its first await or to its
\* response (a new request takes the least free request id)
Receive(i, rid) ==
    /\ Free(req[i])
    /\ \A j \in DOMAIN req : j < i => ~Free(req[j])
    /\ LET a == StageA(Requests[rid], now)
       IN  IF ~a.ok
           THEN req' = [req EXCEPT ![i] = Responded(rid, Failure(a.err, FALSE))]
           ELSE LET l == FetchLookup(jwkCache, a.val.provider, a.val.keyId, now)
                IN  CASE l.k = "hit" -> Continue(i, rid, a.val, l.jwk)
                      [] l.k = "err" ->
                           req' = [req EXCEPT ![i] =
                                      Responded(rid, Failure(l.err, FALSE))]
                      [] l.k = "fetch" ->
                           req' = [req EXCEPT ![i] = Fetching(rid, a.val)]
    /\ UNCHANGED <<now, jwkCache, buildFiles>>
    /\ ServerFrame

\* axios.get settles: fetchJWK returns or throws and the handler runs on
FetchReturn(i, resp) ==
    /\ req[i].pc = "fetching"
    /\ LET o == FetchOutcome(resp, req[i].keyId)
       IN  /\ jwkCache' = CacheAfter(jwkCache, req[i].provider, req[i].keyId, o, now)
           /\ IF o.ok THEN Continue(i, req[i].rid, req[i], o.val)
              ELSE req' = [req EXCEPT ![i] =
                              Responded(req[i].rid, Failure(o.err, FALSE))]
    /\ UNCHANGED <<now, buildFiles>>
    /\ ServerFrame

\* snarkjs.groth16.fullProve settles and the handler builds its response
\* (server.js 564-603), or its catch block answers (605-612)
ProveReturn(i, outcome) ==
    /\ req[i].pc = "proving"
    /\ req' = [req EXCEPT ![i] =
                  Responded(req[i].rid,
                      IF outcome = "reject" THEN Failure(MsgProverFailed, TRUE)
                      ELSE IF ~IsString(Requests[req[i].rid].extendedEphemeralPublicKey)
                      THEN Failure(MsgSubstring, TRUE)
                      ELSE IF outcome = "invalid" THEN Accepted("0")
                      ELSE Success)]
    /\ UNCHANGED <<now, jwkCache, buildFiles>>
    /\ ServerFrame

\* SpecLoad: requests in flight together.  The handler is an async function
\* (server.js 410): while one invocation waits at await fetchJWK or at
\* await fullProve, the next request's invocation runs.
NumLoad == 2
LoadIds == 1..NumLoad
\* the requests of SpecLoad: two that reach the prover, one refused for its
\* salt
LoadRequests == {1, 2, 4}
InitLoad ==
    /\ now = BaseSec * 1000
    /\ jwkCache = EmptyCache
    /\ buildFiles = BuildPaths
    /\ req = [i \in LoadIds |-> IdleReq]
    /\ ParseIdle /\ CallIdle /\ FileIdle /\ ApplyIdle
\* the invocations waiting at await snarkjs.groth16.fullProve
ProvingNow == {i \in DOMAIN req : req[i].pc = "proving"}

(***************************************************************************)
(* SpecFile: the file-based prover (part_006 518-839).  Its /prove handler *)
(* is a synchronous function: it writes the input file, runs the witness   *)
(* generator and rapidsnark-wrapper.sh with execSync, reads the proof      *)
(* files, deletes the files and responds.  The JavaScript thread runs one  *)
(* handler at a time and execSync blocks it, so a request that arrives     *)
(* while a handler runs waits for it to return.                            *)
(***************************************************************************)
\* /prove calls of a behaviour
NumProve == 2
ProveIds == 1..NumProve

\* the paths of the handler (part_006 694, 759, 763) and of
\* rapidsnark-wrapper.sh (line 5)
InputPath == "inputs/input.json"
WitnessPath == "outputs/witness.wtns"
ProofPath == "outputs/proof.json"
PublicPath == "outputs/public.json"
LogPath == "/tmp/rapidsnark.log"
TransientPaths == {InputPath, WitnessPath, ProofPath, PublicPath}
Dirs == {"inputs", "outputs"}
Paths == TransientPaths \cup {LogPath} \cup Dirs
NoFile == [absent |-> TRUE]
Dir == [dir |-> TRUE]

\* hashToNumeric (part_006 573-576) of the texts the model hashes
HashToNumericTable ==
    "a.b.c" :>
      <<"5", "9", "8", "7", "1", "7", "1", "2", "7", "6", "8", "5", "0", "7", "8",
        "8", "9", "1", "0", "9", "2", "0", "3", "5", "4", "7", "7", "8", "3", "2",
        "6", "2", "3", "5", "2", "9", "5", "6", "6", "0", "8", "0", "5", "5", "2",
        "6", "7", "4", "4", "7", "1", "5", "7", "5", "2", "0", "0", "9", "7", "8",
        "0", "7", "1", "5", "6", "9", "6", "1", "4", "9", "9", "5", "3", "1", "7",
        "0", "4">>
hashToNumeric(v) ==
    IF v.t = "str" THEN Ok(Dec(HashToNumericTable[v.s]))
    ELSE Err(<<"The", "\"data\"", "argument", "must", "be", "of", "type", "string">>)

\* BigInt(v) returns (part_006 715, 726, 735): v is a digits-only string or
\* an integer
BigIntAccepts(v) == (v.t = "dec" /\ IsDigits(v.c)) \/ v.t = "num"

\* the processing of one field (part_006 701-740); the token-like and long
\* strings of jwtHash are hashed as the strings BigInt refuses are
Normalise(v) == IF BigIntAccepts(v) THEN Ok(v) ELSE hashToNumeric(v)

\* circuitInputs (part_006 701-753), or the TypeError thrown
FileInputs(input) ==
    LET j == Normalise(Get(input, "jwtHash"))
        n == Normalise(Get(input, "nonce"))
        p == Normalise(Get(input, "pubKeyHash"))
    IN  IF ~j.ok THEN j
        ELSE IF ~n.ok THEN n
        ELSE IF ~p.ok THEN p
        ELSE Ok([jwtHash |-> j.val, nonce |-> n.val, pubKeyHash |-> p.val])

\* request bodies the model draws from
FileBody(jwtHash, nonce, pubKeyHash) ==
    Obj([jwtHash |-> jwtHash, nonce |-> nonce, pubKeyHash |-> pubKeyHash])
FileBodies ==
    { FileBody(Dec(<<"1", "1">>), Dec(<<"7">>), Dec(<<"9">>)),
      FileBody(Dec(<<"2", "2">>), Dec(<<"7">>), Dec(<<"9">>)),
      FileBody(Str("a.b.c"), Dec(<<"7">>), Dec(<<"9">>)),
      FileBody(Dec(<<"1", "1">>), Obj([x |-> Num(1)]), Dec(<<"9">>)),
      FileBody(Dec(<<"1", "1">>), Undef, Dec(<<"9">>)),
      Undef }

\* what the witness generator writes for an input file, and the JSON
\* documents rapidsnark writes for a witness file: the proof, an object
\* with the points pi_a, pi_b and pi_c, and the array of public signals
WitnessOf(content) == [witnessOf |-> content]
ProofPoint(name, of) == [t |-> "point", name |-> name, of |-> of]
ProofOf(content) ==
    Obj([pi_a |-> ProofPoint("a", content.witnessOf),
         pi_b |-> ProofPoint("b", content.witnessOf),
         pi_c |-> ProofPoint("c", content.witnessOf)])
PublicOf(content) == [t |-> "array", length |-> 1, of |-> content.witnessOf]
\* the text of a proof or public file: JSON documents, text that is not
\* JSON, null bytes and newlines, one after the other
Garbage == [t |-> "notjson"]
Nul == [t |-> "nul"]
Newline == [t |-> "ws"]
Text(items) == [text |-> items]

\* content.replace(/\0+$/, '') (part_006 771-772): the null bytes the text
\* ends with are dropped
StripNuls(content) ==
    LET t == content.text
        keep == {n \in 0..Len(t) : \A k \in (n + 1)..Len(t) : t[k] = Nul}
    IN  Text(SubSeq(t, 1, CHOOSE n \in keep : \A m \in keep : n <= m))

\* JSON.parse(content): one JSON document with white space around it, or a
\* SyntaxError
JsonParseText(content) ==
    LET t == content.text
        docs == {k \in 1..Len(t) : t[k] # Newline}
    IN  IF Cardinality(docs) = 1 /\ \A k \in docs : t[k].t \notin {"notjson", "nul"}
        THEN Ok(t[CHOOSE k \in docs : TRUE])
        ELSE Err(MsgSyntaxError)

\* a read-back that parses the files as they are (test-circuit.js 84-85)
TestReadBack(proofContent, publicContent) ==
    LET p == JsonParseText(proofContent)
        q == JsonParseText(publicContent)
    IN  IF ~p.ok THEN p
        ELSE IF ~q.ok THEN q
        ELSE Ok([proof |-> p.val, publicSignals |-> q.val])

\* the read-back of the handler (part_006 767-779)
ReadBack(proofContent, publicContent) ==
    LET p == JsonParseText(StripNuls(proofContent))
        q == JsonParseText(StripNuls(publicContent))
    IN  IF ~p.ok THEN p
        ELSE IF ~q.ok THEN q
        ELSE Ok([proof |-> p.val, publicSignals |-> q.val])
Log == [log |-> TRUE]

\* the responses of the handler (part_006 664-692, 794-815, 826-829)
Initializing == [status |-> 503, error |-> <<"Service", "initializing">>]
Unavailable == [status |-> 503, error |-> <<"Service", "unavailable">>]
InvalidInput == [status |-> 400, error |-> <<"Invalid", "input">>]
MissingFields == [status |-> 400, error |-> <<"Missing", "required", "fields">>]
\* e.message of what the try block throws: execSync's 'Command failed: <cmd>'
\* followed by the subprocess's stderr (child_process checkExecSyncError), or
\* the message of a TypeError, a SyntaxError or an ENOENT error
WitnessCmd == "node circuits/zklogin_mys_js/generate_witness.js"
ProverCmd == "./rapidsnark-wrapper.sh"
WitnessStderr == [stderr |-> "generate_witness.js"]
CommandFailed(cmd, stderr) ==
    [message |-> <<"Command", "failed", ":">>, cmd |-> cmd, stderr |-> stderr]
Thrown(message) == [message |-> message, cmd |-> "", stderr |-> NoFile]
MsgNoEntry == <<"ENOENT", ":", "no", "such", "file", "or", "directory">>
GenerationFailed(details) ==
    [status |-> 500, error |-> <<"Proof", "generation", "failed">>, details |-> details]
\* the response (part_006 794-816): the three points read off the proof,
\* and the public signals when they are a non-empty array
Proved(proof, public) ==
    [status |-> 200, error |-> <<>>,
     proofPoints |-> [a |-> Get(proof, "pi_a"), b |-> Get(proof, "pi_b"),
                      c |-> Get(proof, "pi_c")],
     publicSignals |-> IF public.t = "array" /\ public.length > 0 THEN public
                       ELSE Undef]

\* a call: where its handler stands, the body it came with, the circuit
\* inputs made of it, the paths it has written, the handler that was running
\* when it arrived, its response
IdleProve ==
    [pc |-> "idle", body |-> NoRes, ci |-> NoRes, paths |-> {}, during |-> 0,
     res |-> NoRes]

FileFrame == UNCHANGED <<parseVars, serverVars, callVars, applyVars>>

\* the module has been loaded: initializeKeys has run to the end of its
\* synchronous part (part_006 528-567), the transient files do not exist
InitFile ==
    /\ \E script \in BOOLEAN, zkey \in BOOLEAN :
          /\ keyGenerationInProgress = script
          /\ keysReady = (~script /\ zkey)
    /\ keyGenerationError = Null
    /\ disk = [p \in Paths |-> NoFile]
    /\ running = 0
    /\ freq = [i \in ProveIds |-> IdleProve]
    /\ ParseIdle /\ ServerIdle /\ CallIdle /\ ApplyIdle

\* the state GET /health reports from the flags (part_006 599-623)
KeyGeneration ==
    IF keyGenerationInProgress THEN "in_progress"
    ELSE IF keysReady THEN "complete"
    ELSE "failed"

\* a callback that sets keysReady and leaves keyGenerationInProgress set
KeyGenDoneLate(failed) ==
    /\ keyGenerationInProgress
    /\ keysReady' = ~failed
    /\ UNCHANGED <<keyGenerationInProgress, keyGenerationError, disk, running, freq>>
    /\ FileFrame

\* the callback of exec('/app/generate-keys-if-missing.sh') (part_006 538-553)
KeyGenDone(failed) ==
    /\ keyGenerationInProgress
    /\ keyGenerationInProgress' = FALSE
    /\ keysReady' = IF failed THEN keysReady ELSE TRUE
    /\ keyGenerationError' =
          IF failed THEN Str("Command failed: /app/generate-keys-if-missing.sh")
          ELSE keyGenerationError
    /\ UNCHANGED <<disk, running, freq>>
    /\ FileFrame

\* a POST /prove reaches the server: express reads the body and queues the
\* handler (the least unused call id)
Arrive(i, body) ==
    /\ freq[i].pc = "idle"
    /\ \A j \in ProveIds : j < i => freq[j].pc # "idle"
    /\ freq' = [freq EXCEPT ![i] = [@ EXCEPT !.pc = "queued", !.body = body,
                                              !.during = running]]
    /\ UNCHANGED <<keysReady, keyGenerationInProgress, keyGenerationError, disk, running>>
    /\ FileFrame

\* the JavaScript thread lets the handler of call i run: no handler has
\* started and not returned, but the one of i itself in an execSync
MayRunInterleaved(i) == TRUE
MayRun(i) == running \in {0, i}

\* the files the catch block and the success path delete (part_006
\* 788-791, 820-824)
Cleanup(d) == [p \in Paths |-> IF p \in TransientPaths THEN NoFile ELSE d[p]]

Respond(i, res) == [freq[i] EXCEPT !.pc = "done", !.res = res]
\* the catch block (part_006 817-831)
Fail(i, details) ==
    /\ disk' = Cleanup(disk)
    /\ freq' = [freq EXCEPT ![i] = Respond(i, GenerationFailed(details))]
    /\ running' = 0

\* the handler from its start to the first execSync, or to its response
\* (part_006 660-759)
Start(i) ==
    /\ freq[i].pc = "queued"
    /\ MayRun(i)
    /\ LET input == freq[i].body
           made == [p \in Paths |-> IF p \in Dirs THEN Dir ELSE disk[p]]
       IN  IF keyGenerationInProgress
           THEN /\ freq' = [freq EXCEPT ![i] = Respond(i, Initializing)]
                /\ UNCHANGED <<disk, running>>
           ELSE IF ~keysReady
           THEN /\ freq' = [freq EXCEPT ![i] = Respond(i, Unavailable)]
                /\ UNCHANGED <<disk, running>>
           ELSE IF ~Truthy(input) \/ input.t # "obj"
           THEN /\ freq' = [freq EXCEPT ![i] = Respond(i, InvalidInput)]
                /\ UNCHANGED <<disk, running>>
           ELSE IF ~Truthy(Get(input, "jwtHash")) \/ ~Truthy(Get(input, "nonce"))
                   \/ ~Truthy(Get(input, "pubKeyHash"))
           THEN /\ freq' = [freq EXCEPT ![i] = Respond(i, MissingFields)]
                /\ UNCHANGED <<disk, running>>
           ELSE LET ci == FileInputs(input)
                IN  IF ~ci.ok
                    THEN /\ disk' = Cleanup(made)
                         /\ freq' = [freq EXCEPT ![i] =
                                        Respond(i, GenerationFailed(Thrown(ci.err)))]
                         /\ running' = 0
                    ELSE /\ disk' = [made EXCEPT ![InputPath] = ci.val]
                         /\ freq' = [freq EXCEPT ![i] =
                                        [@ EXCEPT !.pc = "witness", !.ci = ci.val,
                                                  !.paths = {InputPath}]]
                         /\ running' = i
    /\ UNCHANGED <<keysReady, keyGenerationInProgress, keyGenerationError>>
    /\ FileFrame

\* a handler that goes on to the prover whatever the witness generator's
\* exit status
WitnessUnchecked(i, works) ==
    /\ freq[i].pc = "witness"
    /\ MayRun(i)
    /\ disk' = IF works /\ disk[InputPath] # NoFile
               THEN [disk EXCEPT ![WitnessPath] = WitnessOf(disk[InputPath])]
               ELSE disk
    /\ freq' = [freq EXCEPT ![i] =
                   [@ EXCEPT !.pc = "prove",
                             !.paths = IF works /\ disk[InputPath] # NoFile
                                       THEN @ \cup {WitnessPath} ELSE @]]
    /\ running' = i
    /\ UNCHANGED <<keysReady, keyGenerationInProgress, keyGenerationError>>
    /\ FileFrame

\* execSync of generate_witness.js returns or throws (part_006 759): the
\* generator reads the input file and writes the witness file
Witness(i, works) ==
    /\ freq[i].pc = "witness"
    /\ MayRun(i)
    /\ IF works /\ disk[InputPath] # NoFile
       THEN /\ disk' = [disk EXCEPT ![WitnessPath] = WitnessOf(disk[InputPath])]
            /\ freq' = [freq EXCEPT ![i] =
                           [@ EXCEPT !.pc = "prove", !.paths = @ \cup {WitnessPath}]]
            /\ running' = i
       ELSE Fail(i, CommandFailed(WitnessCmd, WitnessStderr))
    /\ UNCHANGED <<keysReady, keyGenerationInProgress, keyGenerationError>>
    /\ FileFrame

\* the proof file and the public file rapidsnark leaves for a witness: well
\* formed, with null bytes behind the document, without the point pi_a, or
\* not JSON
ProofText(outcome, witness) ==
    CASE outcome = "garbage" -> Text(<<Garbage>>)
      [] outcome = "padded" -> Text(<<ProofOf(witness), Nul, Nul>>)
      [] outcome = "partial" ->
            Text(<<Obj([pi_b |-> ProofPoint("b", witness.witnessOf),
                        pi_c |-> ProofPoint("c", witness.witnessOf)])>>)
      [] OTHER -> Text(<<ProofOf(witness)>>)
PublicText(outcome, witness) ==
    IF outcome = "padded" THEN Text(<<PublicOf(witness), Newline, Nul>>)
    ELSE Text(<<PublicOf(witness)>>)

\* execSync of rapidsnark-wrapper.sh returns or throws (part_006 763;
\* rapidsnark-wrapper.sh 5-15): rapidsnark's output goes to the log file,
\* and it writes the proof and the public signals, well-formed or not
Prove(i, outcome) ==
    /\ freq[i].pc = "prove"
    /\ MayRun(i)
    /\ LET logged == [disk EXCEPT ![LogPath] = Log]
       IN  IF outcome = "fails" \/ disk[WitnessPath] = NoFile
           THEN /\ disk' = Cleanup(logged)
                /\ freq' = [freq EXCEPT ![i] =
                               [Respond(i, GenerationFailed(CommandFailed(ProverCmd, Log))) EXCEPT
                                   !.paths = @ \cup {LogPath}]]
                /\ running' = 0
           ELSE /\ disk' = [logged EXCEPT
                               ![ProofPath] = ProofText(outcome, disk[WitnessPath]),
                               ![PublicPath] = PublicText(outcome, disk[WitnessPath])]
                /\ freq' = [freq EXCEPT ![i] =
                               [@ EXCEPT !.pc = "read",
                                         !.paths = @ \cup {ProofPath, PublicPath, LogPath}]]
                /\ running' = i
    /\ UNCHANGED <<keysReady, keyGenerationInProgress, keyGenerationError>>
    /\ FileFrame

\* the handler from the reading of the proof files to its response
\* (part_006 765-830): a missing or unparsable file, or a file that is not
\* there to delete, throws into the catch block
Finish(i) ==
    /\ freq[i].pc = "read"
    /\ MayRun(i)
    /\ disk' = Cleanup(disk)
    /\ freq' = [freq EXCEPT ![i] =
                   Respond(i, IF \E p \in TransientPaths : disk[p] = NoFile
                              THEN GenerationFailed(Thrown(MsgNoEntry))
                              ELSE LET rb == ReadBack(disk[ProofPath], disk[PublicPath])
                                   IN  IF ~rb.ok THEN GenerationFailed(Thrown(rb.err))
                                       ELSE IF rb.val.proof.t = "null"
                                       THEN GenerationFailed(Thrown(MsgTypeError))
                                       ELSE Proved(rb.val.proof, rb.val.publicSignals))]
    /\ running' = 0
    /\ UNCHANGED <<keysReady, keyGenerationInProgress, keyGenerationError>>
    /\ FileFrame

(***************************************************************************)
(* SpecApply: one encoder or reader of the program applied once to an      *)
(* input drawn from the inputs below.                                      *)
(***************************************************************************)
Input(fn, v) == [fn |-> fn, v |-> v]

\* the longest run of one digit among the decimal strings
MaxDigits == 80
\* the decimal text of 2^256 - 1 with its last digit replaced
NearMax(d) == SubSeq(BigToString(MaxValue256), 1, Len(MaxValue256) - 1) \o <<DigitChar(d)>>
Repeat(ch, n) == [i \in 1..n |-> ch]
\* values handed to validateDecimalString (server.js 482-484)
DecimalValues ==
    { Undef, Null, Num(0), Num(5), Str("abc"), Dec(<<>>), Dec(<<"0">>),
      Dec(<<"0", "0", "7">>), Dec(<<"1", "2", "a">>), Dec(<<"-", "1">>),
      Dec(<<"1", ".", "5">>), Dec(<<" ", "1">>), Dec(<<"1", "\n">>) }
    \cup {Dec(NearMax(d)) : d \in 0..9}
    \cup {Dec(<<"0">> \o NearMax(d)) : d \in 0..9}
    \cup {Dec(Repeat("9", n)) : n \in 1..MaxDigits}
    \cup {Dec(Repeat("0", n)) : n \in 1..MaxDigits}

\* a Buffer of bytes
Buffer(bytes) == [t |-> "buffer", bytes |-> bytes]
\* the longest buffer handed to hexToFieldArray
MaxFieldBytes == 34
\* buffers whose hex text is handed to hexToFieldArray (server.js 534-545):
\* a digest, or the bytes of the nonce claim, of any length
FieldBuffers ==
    {Buffer(Pattern(n, 7, 13, 5)) : n \in 0..MaxFieldBytes}
    \cup {Buffer(Pattern(n, 0, 17, 3)) : n \in 1..MaxFieldBytes}

\* the longest modulus or signature around the 256 bytes of 64 chunks
MaxKeyBytes == 260
\* moduli and signatures handed to the chunk loops (server.js 196, 516):
\* short ones, ones around 256 bytes, 512 bytes, and the bytes of 2^2040
KeyBuffers ==
    {Buffer(Pattern(n, 195, 37, 11)) : n \in {0, 1, 4, 5, 128, 512} \cup 250..MaxKeyBytes}
    \cup {Buffer(Pattern(n, 1, 0, 0)) : n \in {1, 4, 256}}
    \cup {Buffer(Pattern(n, 3, 5, 0)) : n \in {4, 8, 256}}

\* (subjectValue, payload.aud, payload.iss, validatedSalt) of requests
\* (server.js 505); an issuer may continue past the configured one
\* (getProviderFromIssuer, 229)
SeedTuple(sub, aud, iss, salt) == [sub |-> sub, aud |-> aud, iss |-> iss, salt |-> salt]
SeedTuples ==
    { SeedTuple("user-1", "app-1", IssGoogle, "12345"),
      SeedTuple("user-", "1app-1", IssGoogle, "12345"),
      SeedTuple("user-1", "app-1", IssGoogle \o "1", "2345"),
      SeedTuple("user-2", "app-1", IssGoogle, "12345"),
      SeedTuple("user-1", "app-2", IssGoogle, "12345") }
\* the tuples of two requests
SeedPairs == {[a |-> x, b |-> y] : x \in SeedTuples, y \in SeedTuples}

\* prover output files: a JSON document with null bytes behind it, and
\* texts that are no JSON document once the null bytes at the end are gone
Files(proof, public) == [proof |-> proof, public |-> public]
MaxNuls == 3
SampleWitness == WitnessOf(Num(1))
OutputDocs == {ProofOf(SampleWitness), Obj([pi_b |-> Num(2)]), Num(5), Null, Str("x")}
OutputTexts ==
    {Text(<<d>> \o Repeat(Nul, k)) : d \in OutputDocs \cup {Garbage}, k \in 0..MaxNuls}
    \cup {Text(Repeat(Nul, k)) : k \in 0..MaxNuls}
    \cup {Text(<<Newline, d, Newline>> \o Repeat(Nul, k)) : d \in OutputDocs, k \in 0..MaxNuls}
    \cup {Text(<<d, Nul, Newline>>) : d \in OutputDocs}
    \cup {Text(<<Nul, d>>) : d \in OutputDocs}
    \cup {Text(<<d, d>>) : d \in OutputDocs}
PublicTexts ==
    {Text(<<PublicOf(SampleWitness)>> \o Repeat(Nul, k)) : k \in 0..MaxNuls}
    \cup {Text(<<Garbage>>)}
OutputFiles == {Files(p, q) : p \in OutputTexts, q \in PublicTexts}

\* a second issuer no provider is configured with
TokenOtherIss ==
    Jwt(<<RawSeg("eyJhbGciOiJSUzI1NiIsInR5cCI6IkpXVCIsImtpZCI6ImtpZDEifQ",
                 Header(Str("RS256"), Str("JWT"), Str("kid1"))),
          RawSeg("eyJpc3MiOiJodHRwczovL290aGVyLmV4YW1wbGUiLCJzdWIiOiJ1c2VyLTEiLCJh" \o
                 "dWQiOiJhcHAtMSIsImV4cCI6MjAwMDAwMDAwMCwibm9uY2UiOiJCeDhzT1VaVFlH" \o
                 "MTZoNVNocnJ2STFlTHZfQWsifQ",
                 Payload(Str("https://other.example"), Str("user-1"), Str("app-1"), Num(2000000000), Undef, Undef, NonceA)),
          PipelineSig>>)
\* pairs of requests that differ in nothing but the token
PairTokens ==
    {TokenA, TokenBadIss, TokenOtherIss, TokenNumIss, TokenExpired, TokenNoKid,
     Undef, Jwt(<<Seg(NotJson), Seg(NotJson), SigSeg("s", <<1>>)>>)}
BodyPairs ==
    {[a |-> [BaseBody EXCEPT !.jwt = x], b |-> [BaseBody EXCEPT !.jwt = y]] :
        x \in PairTokens, y \in PairTokens}

\* the response to a request the handler refuses before it asks for the key
\* (server.js 412-436, 605-612)
EarlyResponse(b, nowMs) ==
    LET a == StageA(b, nowMs)
    IN  IF a.ok THEN NoRes ELSE Failure(a.err, FALSE)

\* extended ephemeral public keys: 31 to 34 bytes, with the flag byte zero
\* and not zero, with zero bytes in front, and of 255s throughout
MaxKeyLen == 34
EphKeyBytes ==
    {Pattern(n, 17, 29, 3) : n \in 31..MaxKeyLen}
    \cup {Pattern(n, 0, 29, 3) : n \in 31..MaxKeyLen}
    \cup {Pattern(n, 17, 15, 1) : n \in 31..MaxKeyLen}
    \cup {Pattern(n, 1, 0, 255) : n \in 31..MaxKeyLen}
    \cup {Pattern(n, 255, 0, 255) : n \in 31..MaxKeyLen}
    \cup {Pattern(n, 0, 0, 0) : n \in 31..MaxKeyLen}
    \cup {Pattern(n, 0, 0, 0) \o <<1>> : n \in 31..(MaxKeyLen - 1)}
    \cup {<<0, 0>> \o Pattern(n, 9, 91, 17) : n \in 30..31}
    \cup {<<0>> \o Pattern(n, 0, 77, 1) : n \in 31..32}
EphKeys == {B64("key", bytes) : bytes \in EphKeyBytes}

\* rapidsnark-wrapper.sh (lines 1-16) as a function of what it meets: the
\* log file it redirects to can be opened or not, the binary is there or
\* not, and the binary, if run, writes output and exits with a status
Run(writable, binary, code, output, oldLog) ==
    [writable |-> writable, binary |-> binary, code |-> code, output |-> output,
     oldLog |-> oldLog]
ExitCodes == {0, 1, 2, 126, 134, 137, 139, 255}
RunOutputs == {<<>>, <<"proof written">>, <<"Error: Invalid witness length", "Aborted">>}
OldLogs == {<<>>, <<"log of an earlier run">>}
Runs ==
    {Run(w, b, c, o, l) : w \in BOOLEAN, b \in {"present", "missing"},
                          c \in ExitCodes, o \in RunOutputs, l \in OldLogs}

\* line 5: ./rapidsnark/rapidsnark "$@" > /tmp/rapidsnark.log 2>&1 and its
\* status: 1 and a message of the shell when the redirection fails, 127 and
\* the message in the log when the binary is not found
MsgRedirect == "/tmp/rapidsnark.log: Permission denied"
MsgNotFound == "./rapidsnark/rapidsnark: No such file or directory"
Line5(run) ==
    IF ~run.writable
    THEN [status |-> 1, stderr |-> <<MsgRedirect>>, log |-> run.oldLog, ran |-> FALSE]
    ELSE IF run.binary = "missing"
    THEN [status |-> 127, stderr |-> <<>>, log |-> <<MsgNotFound>>, ran |-> FALSE]
    ELSE [status |-> run.code, stderr |-> <<>>, log |-> run.output, ran |-> TRUE]

\* a wrapper that reports every failure with status 1
WrapperStatusOne(run) ==
    LET r == Line5(run)
    IN  IF r.status = 0
        THEN [exit |-> 0, stderr |-> r.stderr, log |-> r.log]
        ELSE [exit |-> 1, stderr |-> r.stderr \o r.log, log |-> r.log]

\* lines 6-16: EXIT_CODE=$?; exit 0, or cat the log to standard error and
\* exit $EXIT_CODE
Wrapper(run) ==
    LET r == Line5(run)
        EXIT_CODE == r.status
    IN  IF EXIT_CODE = 0
        THEN [exit |-> 0, stderr |-> r.stderr, log |-> r.log]
        ELSE [exit |-> EXIT_CODE, stderr |-> r.stderr \o r.log, log |-> r.log]

ApplyInputs ==
    {Input("validateDecimalString", v) : v \in DecimalValues}
    \cup {Input("hexToFieldArray", v) : v \in FieldBuffers}
    \cup {Input("jwkToCircuitFormat", v) : v \in KeyBuffers}
    \cup {Input("signatureChunks", v) : v \in KeyBuffers}
    \cup {Input("addressSeed", v) : v \in SeedPairs}
    \cup {Input("readBack", v) : v \in OutputFiles}
    \cup {Input("testReadBack", v) : v \in OutputFiles}
    \cup {Input("errorPayloads", v) : v \in BodyPairs}
    \cup {Input("extractEphemeralKeyCoordinates", v) : v \in EphKeys}
    \cup {Input("rapidsnark-wrapper.sh", v) : v \in Runs}

InitApply ==
    /\ arg \in ApplyInputs
    /\ out = NoRes
    /\ ParseIdle /\ ServerIdle /\ CallIdle /\ FileIdle

ApplyFrame == UNCHANGED <<arg, parseVars, serverVars, callVars, fileVars>>

\* validateDecimalString(value, 'salt') (server.js 482)
DoValidate ==
    /\ arg.fn = "validateDecimalString" /\ out = NoRes
    /\ out' = validateDecimalString(arg.v, "salt")
    /\ ApplyFrame

\* hexToFieldArray(buffer.toString('hex')) (server.js 534-545)
DoHexToFieldArray ==
    /\ arg.fn = "hexToFieldArray" /\ out = NoRes
    /\ out' = Ok(hexToFieldArray(ToHex(arg.v.bytes)))
    /\ ApplyFrame

\* jwkToCircuitFormat(jwk) (server.js 440) of a key whose n decodes to the
\* buffer
DoJwkToCircuitFormat ==
    /\ arg.fn = "jwkToCircuitFormat" /\ out = NoRes
    /\ out' = Ok(jwkToCircuitFormat(Rsa("kid1", "n", arg.v.bytes)).modulus)
    /\ ApplyFrame

\* the signature chunks of circuitInputs (server.js 516-527, 541)
DoSignatureChunks ==
    /\ arg.fn = "signatureChunks" /\ out = NoRes
    /\ out' = Ok(PadSlice64(Chunks(arg.v.bytes)))
    /\ ApplyFrame

\* addressSeed as two requests compute it (server.js 504-506)
DoAddressSeed ==
    /\ arg.fn = "addressSeed" /\ out = NoRes
    /\ out' = Ok(<<AddressSeed(arg.v.a.sub, arg.v.a.aud, arg.v.a.iss, arg.v.a.salt),
                   AddressSeed(arg.v.b.sub, arg.v.b.aud, arg.v.b.iss, arg.v.b.salt)>>)
    /\ ApplyFrame

DoReadBack ==
    /\ arg.fn = "readBack"
    /\ out = NoRes
    /\ out' = ReadBack(arg.v.proof, arg.v.public)
    /\ ApplyFrame

DoTestReadBack ==
    /\ arg.fn = "testReadBack"
    /\ out = NoRes
    /\ out' = TestReadBack(arg.v.proof, arg.v.public)
    /\ ApplyFrame

\* two requests refused before the key lookup and their error payloads
\* (server.js 412-436, 605-612)
DoErrorPayloads ==
    /\ arg.fn = "errorPayloads" /\ out = NoRes
    /\ out' = Ok(<<EarlyResponse(arg.v.a, BaseSec * 1000),
                   EarlyResponse(arg.v.b, BaseSec * 1000)>>)
    /\ ApplyFrame

\* extractEphemeralKeyCoordinates(extendedEphemeralPublicKey) (server.js 455)
DoExtract ==
    /\ arg.fn = "extractEphemeralKeyCoordinates" /\ out = NoRes
    /\ out' = extractEphemeralKeyCoordinates(arg.v)
    /\ ApplyFrame

\* ./rapidsnark-wrapper.sh zkey witness proof public (part_006 763;
\* test-circuit.js 79)
DoWrapper ==
    /\ arg.fn = "rapidsnark-wrapper.sh" /\ out = NoRes
    /\ out' = Ok(Wrapper(arg.v))
    /\ ApplyFrame

\* === specifications ===
NextParse == DoParse
SpecParse == InitParse /\ [][NextParse]_vars

NextResolve ==
    \/ \E c \in CallIds, a \in CallArgs : CallStart(c, a[1], a[2])
    \/ \E c \in CallIds, resp \in JwksResponses : CallSettle(c, resp)
    \/ \E d \in TickSteps : Tick(d)
    \/ ClearCache
SpecResolve == InitResolve /\ [][NextResolve]_vars

NextDebug ==
    \/ \E c \in CallIds, a \in DebugArgs : CallStart(c, a[1], a[2])
    \/ \E c \in CallIds, resp \in JwksResponses : CallSettle(c, resp)
    \/ \E d \in TickSteps : Tick(d)
    \/ ClearCache
SpecDebug == InitResolve /\ [][NextDebug]_vars

Next ==
    \/ \E i \in ReqIds, rid \in 1..Len(Requests) : Receive(i, rid)
    \/ \E i \in ReqIds, resp \in ProveResponses : FetchReturn(i, resp)
    \/ \E i \in ReqIds, outcome \in ProveOutcomes : ProveReturn(i, outcome)
    \/ ClearCache
Spec == InitServer /\ [][Next]_vars

NextValidity ==
    \/ \E i \in ReqIds, rid \in 1..Len(Requests) : Receive(i, rid)
    \/ \E i \in ReqIds, resp \in ProveResponses : FetchReturn(i, resp)
    \/ \E i \in ReqIds, outcome \in ValidityOutcomes : ProveReturn(i, outcome)
    \/ ClearCache
SpecValidity == InitServer /\ [][NextValidity]_vars

NextLoad ==
    \/ \E i \in LoadIds, rid \in LoadRequests : Receive(i, rid)
    \/ \E i \in LoadIds, resp \in ProveResponses : FetchReturn(i, resp)
    \/ \E i \in LoadIds, outcome \in ProveOutcomes : ProveReturn(i, outcome)
SpecLoad == InitLoad /\ [][NextLoad]_vars
\* axios.get is called with timeout: 10000 (server.js 131-137) and settles;
\* nothing bounds snarkjs.groth16.fullProve (559-563)
SpecLoadFair ==
    /\ InitLoad /\ [][NextLoad]_vars
    /\ \A i \in LoadIds : WF_vars(\E resp \in ProveResponses : FetchReturn(i, resp))

ProveOutcomesFile == {"proof", "garbage", "fails"}
NextFile ==
    \/ \E failed \in BOOLEAN : KeyGenDone(failed)
    \/ \E i \in ProveIds, body \in FileBodies : Arrive(i, body)
    \/ \E i \in ProveIds : Start(i)
    \/ \E i \in ProveIds, works \in BOOLEAN : Witness(i, works)
    \/ \E i \in ProveIds, outcome \in ProveOutcomesFile : Prove(i, outcome)
    \/ \E i \in ProveIds : Finish(i)
SpecFile == InitFile /\ [][NextFile]_vars

\* the file-based prover with proof files of every shape rapidsnark can
\* leave behind when it exits with status 0
ArtifactBodies ==
    { FileBody(Dec(<<"1", "1">>), Dec(<<"7">>), Dec(<<"9">>)),
      FileBody(Dec(<<"2", "2">>), Dec(<<"7">>), Dec(<<"9">>)) }
ArtifactOutcomes == {"proof", "padded", "partial", "garbage"}
NextArtifact ==
    \/ \E failed \in BOOLEAN : KeyGenDone(failed)
    \/ \E i \in ProveIds, body \in ArtifactBodies : Arrive(i, body)
    \/ \E i \in ProveIds : Start(i)
    \/ \E i \in ProveIds, works \in BOOLEAN : Witness(i, works)
    \/ \E i \in ProveIds, outcome \in ArtifactOutcomes : Prove(i, outcome)
    \/ \E i \in ProveIds : Finish(i)
SpecArtifact == InitFile /\ [][NextArtifact]_vars

\* the key-generation script terminates and node runs the callback of exec
\* (part_006 538): no handler holds the thread for ever
SpecFileFair ==
    /\ InitFile /\ [][NextFile]_vars
    /\ WF_vars(\E failed \in BOOLEAN : KeyGenDone(failed))

NextApply ==
    \/ DoValidate
    \/ DoHexToFieldArray
    \/ DoJwkToCircuitFormat
    \/ DoSignatureChunks
    \/ DoAddressSeed
    \/ DoReadBack
    \/ DoTestReadBack
    \/ DoErrorPayloads
    \/ DoExtract
    \/ DoWrapper
SpecApply == InitApply /\ [][NextApply]_vars

(***************************************************************************)
(* Properties                                                              *)
(***************************************************************************)
\* C8: parsing a well-formed token whose exp is an integer below the
\* validation time fails with 'Token has expired'; a token that parses has
\* its exp, when present, strictly above the validation time; and a token
\* whose exp is in the future and whose nbf and iat are valid is accepted.
C8_ExpiredTokenRejected ==
    (pRes # NoRes /\ pTok \in TimedTokens) =>
        LET exp == Get(pTok.parts[2].dec, "exp")
            nbf == Get(pTok.parts[2].dec, "nbf")
            iat == Get(pTok.parts[2].dec, "iat")
        IN  /\ (exp.t = "num" /\ exp.n < pNow) => pRes = Err(MsgExpired)
            /\ (pRes.ok /\ exp.t = "num") => exp.n > pNow
            /\ (exp.t = "num" /\ exp.n > pNow /\ nbf = Undef /\ iat = Undef) => pRes.ok

\* a well-formed token with exp = 0 (the epoch, long past) has been parsed
\* and accepted
C8_ZeroExpAccepted ==
    /\ pTok \in TimedTokens
    /\ Get(pTok.parts[2].dec, "exp") = Num(0)
    /\ pRes # NoRes /\ pRes.ok

\* C5: a resolve that finds its (provider, keyId) cached at time t returns,
\* while the clock is earlier than t + TTL, the identical cached key without
\* a network fetch and leaves the cache alone; at or after t + TTL it sends a
\* JWKS request, and a resolve that fetches sends exactly one request.
\* (The pair is one of a configured provider: only such a pair is ever
\* resolved and cached.)
C5_CacheRoundTrip ==
    [][/\ \A c \in CallIds :
            /\ (/\ call[c].pc = "idle" /\ call'[c].pc = "fetching"
                /\ CacheKey(call'[c].provider, call'[c].keyId) \in DOMAIN jwkCache) =>
                    now >= jwkCache[CacheKey(call'[c].provider, call'[c].keyId)].timestamp
                               + JWK_CACHE_TTL
            /\ (call[c].pc = "idle" /\ call'[c].pc = "fetching") => call'[c].fetches = 1
            /\ (call[c].pc = "fetching" /\ call'[c].pc = "idle") =>
                    ret'.fetches = 1 /\ ret'.keyId = call[c].keyId
       /\ (/\ ret'.seq # ret.seq /\ call' = call
           /\ ret'.provider \in DOMAIN OAUTH_PROVIDERS
           /\ CacheKey(ret'.provider, ret'.keyId) \in DOMAIN jwkCache) =>
               LET e == jwkCache[CacheKey(ret'.provider, ret'.keyId)]
               IN  /\ now < e.timestamp + JWK_CACHE_TTL
                   /\ ret'.res = Ok(e.jwk)
                   /\ ret'.fetches = 0
                   /\ jwkCache' = jwkCache]_vars

\* the latest resolve to finish was answered from the cache without a
\* fetch, and now that its entry has reached its TTL another resolve of the
\* same pair has its one JWKS request in flight
C5_HitAndRefresh ==
    /\ ret.fetches = 0 /\ ret.res # NoRes /\ ret.res.ok
    /\ CacheKey(ret.provider, ret.keyId) \in DOMAIN jwkCache
    /\ ret.res = Ok(jwkCache[CacheKey(ret.provider, ret.keyId)].jwk)
    /\ \E b \in CallIds :
        /\ call[b].provider = ret.provider /\ call[b].keyId = ret.keyId
        /\ call[b].pc = "fetching" /\ call[b].fetches = 1
        /\ CacheKey(call[b].provider, call[b].keyId) \in DOMAIN jwkCache
        /\ now - jwkCache[CacheKey(call[b].provider, call[b].keyId)].timestamp
               >= JWK_CACHE_TTL

\* C6: every key a resolve has returned, and every key in the cache, has
\* kty RSA, use sig and a modulus of at least 2048 bits.
C6_ResolvedKeysStrong ==
    LET BitsOfByte(b) == CHOOSE k \in 0..8 : 2 ^ k > b /\ (k = 0 \/ 2 ^ (k - 1) <= b)
        BitLength(bytes) ==
            LET nz == {i \in 1..Len(bytes) : bytes[i] # 0}
            IN  IF nz = {} THEN 0
                ELSE LET i == CHOOSE x \in nz : \A y \in nz : x <= y
                     IN  8 * (Len(bytes) - i) + BitsOfByte(bytes[i])
        Strong(jwk) ==
            /\ Get(jwk, "kty") = Str("RSA")
            /\ Get(jwk, "use") = Str("sig")
            /\ Get(jwk, "n").t = "b64"
            /\ BitLength(Get(jwk, "n").bytes) >= MinKeySize
    IN  /\ \A ck \in DOMAIN jwkCache : Strong(Jwk(jwkCache[ck].jwk))
        /\ (ret.res # NoRes /\ ret.res.ok) => Strong(Jwk(ret.res.val))

\* the cache holds, and a resolve has returned, a key whose 256-byte
\* modulus starts with a zero byte
C6_LeadingZeroModulusCached ==
    /\ CacheKey("google", "kid1") \in DOMAIN jwkCache
    /\ Get(Jwk(jwkCache[CacheKey("google", "kid1")].jwk), "n").bytes[1] = 0
    /\ ret.res # NoRes /\ ret.res.ok
    /\ ret.res.val = jwkCache[CacheKey("google", "kid1")].jwk

(***************************************************************************)
(* The /prove handler (Spec).                                              *)
(***************************************************************************)
\* the request of invocation r carries a nonce claim other than the nonce
\* its (ephemeral public key, maxEpoch, jwtRandomness) binds
NonceDiffers(r) ==
    /\ r.rid # 0
    /\ LET b == Requests[r.rid]
           p == parseJWT(b.jwt, now \div 1000)
           e == ExpectedNonce(b.extendedEphemeralPublicKey, b.maxEpoch, b.jwtRandomness)
       IN  p.ok /\ e # NoNonce /\ Truthy(Get(p.val.payload, "nonce"))
           /\ Get(p.val.payload, "nonce") # e

\* C1: a /prove request whose nonce claim differs from the nonce derived
\* from (ephemeral public key, maxEpoch, jwtRandomness) fails, and no
\* proving is started for it.
C1_NonceMismatchRejected ==
    \A i \in ReqIds :
        NonceDiffers(req[i]) =>
            /\ req[i].pc # "proving"
            /\ req[i].pc = "done" => req[i].res.status # 200 /\ ~req[i].res.proved

\* C1, the case: a request with a differing nonce has been answered with a
\* proof (HTTP 200)
C1_MismatchedNonceProved ==
    \E i \in ReqIds :
        NonceDiffers(req[i]) /\ req[i].pc = "done" /\ req[i].res = Success

\* a non-negative base-10 string below the prime field modulus
FieldElement(c) == IsDigits(c) /\ BigLess(BigOfDigits(c), FieldPrime)

\* C7: every numeric field of the circuit inputs handed to the prover
\* (addrSeed, maxEpoch, jwtRandomness, jwkExponent, every modulus limb,
\* every signature limb, every digest byte) is a non-negative base-10
\* string of an integer below the prime field modulus.
C7_InputsAreFieldElements ==
    \A i \in ReqIds :
        req[i].pc = "proving" =>
            LET in == req[i].inputs
            IN  /\ FieldElement(in.addrSeed)
                /\ FieldElement(in.maxEpoch)
                /\ FieldElement(in.jwtRandomness)
                /\ FieldElement(in.jwkExponent)
                /\ \A k \in 1..Len(in.jwkModulus) : FieldElement(in.jwkModulus[k])
                /\ \A k \in 1..Len(in.jwtSignature) : FieldElement(in.jwtSignature[k])
                /\ \A k \in 1..32 :
                      /\ FieldElement(in.issuerHash[k]) /\ FieldElement(in.jwtHash[k])
                      /\ FieldElement(in.subjectHash[k]) /\ FieldElement(in.jwtNonce[k])

\* C7, the case: the prover is running on inputs with a negative modulus
\* limb, a negative signature limb and an addrSeed of the prime or more
C7_NegativeLimbProving ==
    \E i \in ReqIds :
        /\ req[i].pc = "proving"
        /\ \E k \in 1..64 : req[i].inputs.jwkModulus[k][1] = "-"
        /\ \E k \in 1..64 : req[i].inputs.jwtSignature[k][1] = "-"
        /\ IsDigits(req[i].inputs.addrSeed)
        /\ ~BigLess(BigOfDigits(req[i].inputs.addrSeed), FieldPrime)

\* a valid decimal string: a string of one or more digits
DecimalString(v) == v.t = "dec" /\ IsDigits(v.c)
\* salt, jwtRandomness or the text of maxEpoch is not a valid decimal string
NumericInvalid(b) ==
    \/ ~DecimalString(b.salt) \/ ~DecimalString(b.jwtRandomness)
    \/ ~DecimalString(ToStringJs(b.maxEpoch))
\* the errors of the presence checks and of validateDecimalString
NumericErrors ==
    {<<x, "must", "be", "a", "string">> : x \in {"salt", "jwtRandomness", "maxEpoch"}}
    \cup {<<x, "must", "contain", "only", "digits">> : x \in {"salt", "jwtRandomness", "maxEpoch"}}
    \cup {MsgMissing(x) : x \in {"salt", "jwtRandomness", "maxEpoch"}}
\* the token, its issuer, the key id and the ephemeral public key of the
\* request pass their checks
EarlierStagesPass(b) ==
    StageA(b, now).ok /\ EphemeralPubKey(b.extendedEphemeralPublicKey).ok
\* the errors fetchJWK throws
KeyErrors ==
    {MsgUnsupportedProvider, MsgUnableToConnect, MsgFetchFailed, MsgTimeout,
     MsgNoKeysArray, MsgJwkNotFound, MsgJwkFields, MsgKeyType, MsgKeyUse,
     MsgRsaFields, MsgKeySize}

C10_MissingFilesRefused503 ==
    \A i \in ReqIds :
        buildFiles # BuildPaths =>
            /\ req[i].pc # "proving"
            /\ req[i].pc = "done" => req[i].res.status = 503 /\ ~req[i].res.proved

\* C10, the case: with a build file missing, a request has been answered
\* with the build-files error under HTTP 400
C10_MissingFilesRefused400 ==
    \E i \in ReqIds :
        /\ buildFiles # BuildPaths
        /\ req[i].pc = "done"
        /\ req[i].res = Failure(MsgBuildFiles, FALSE)

\* C2: a /prove call of the file-based prover that returns a proof returns
\* the proof and the public signals made from its own input file, whatever
\* other calls arrived while its handler was running
C2_OwnProofReturned ==
    \A i \in ProveIds :
        (freq[i].pc = "done" /\ freq[i].res.status = 200)
            => /\ freq[i].res = Proved(ProofOf(WitnessOf(freq[i].ci)),
                                       PublicOf(WitnessOf(freq[i].ci)))
               /\ freq[i].res.proofPoints.a = ProofPoint("a", freq[i].ci)
               /\ freq[i].res.publicSignals = PublicOf(WitnessOf(freq[i].ci))

\* C2 happens: a call arrived while the handler of another call was in an
\* execSync, and both calls returned proofs of different inputs
C2_OverlappingCallsProved ==
    \E i \in ProveIds, j \in ProveIds :
        /\ i # j
        /\ freq[j].during = i
        /\ freq[i].pc = "done" /\ freq[i].res.status = 200
        /\ freq[j].pc = "done" /\ freq[j].res.status = 200
        /\ freq[i].ci # freq[j].ci

\* C3: two /prove calls never write their input, witness, proof or public
\* signals to the same path
C3_PathsUnique ==
    \A i \in ProveIds, j \in ProveIds :
        i # j => (freq[i].paths \cap freq[j].paths) \cap TransientPaths = {}

\* C3 happens: two calls have both written an input file, at the one path
C3_TwoCallsSameInputPath ==
    \E i \in ProveIds, j \in ProveIds :
        /\ i # j
        /\ freq[i].pc = "done" /\ InputPath \in freq[i].paths
        /\ freq[j].pc = "done" /\ InputPath \in freq[j].paths

\* C4: once a /prove call has responded and no handler is running, no file
\* the call has written is left
C4_NoArtifactRemains ==
    \A i \in ProveIds :
        (freq[i].pc = "done" /\ running = 0)
            => \A p \in freq[i].paths : disk[p] = NoFile

\* C4 happens: a call has returned a proof, its four files are deleted and
\* the log of rapidsnark-wrapper.sh is left
C4_LogRemains ==
    \E i \in ProveIds :
        /\ freq[i].pc = "done" /\ freq[i].res.status = 200
        /\ running = 0
        /\ \A p \in TransientPaths : disk[p] = NoFile
        /\ LogPath \in freq[i].paths /\ disk[LogPath] = Log

\* C11: keyGenerationInProgress and keysReady are never both set; the state
\* /health reports changes only from in_progress to complete or to failed;
\* a /prove handler writes its input file and starts witness generation only
\* in a step taken while the state is complete
C11_ReadinessStateMachine ==
    /\ [](~(keyGenerationInProgress /\ keysReady))
    /\ [][/\ (KeyGeneration' # KeyGeneration)
                => /\ KeyGeneration = "in_progress"
                   /\ KeyGeneration' \in {"complete", "failed"}
          /\ \A i \in ProveIds :
                (freq[i].pc = "queued" /\ freq'[i].pc # "queued")
                    => /\ KeyGeneration = "in_progress" => freq'[i].res = Initializing
                       /\ KeyGeneration = "failed" => freq'[i].res = Unavailable
                       /\ freq'[i].pc = "witness" => KeyGeneration = "complete"
          /\ (disk' # disk) => KeyGeneration = "complete"]_vars

\* C11 happens: a call was refused while the keys were being generated, the
\* generation has ended and a later call is in witness generation
C11_RefusedThenStarted ==
    \E i \in ProveIds, j \in ProveIds :
        /\ freq[i].pc = "done" /\ freq[i].res = Initializing
        /\ freq[j].pc = "witness"
        /\ KeyGeneration = "complete"

\* a slot count N below the number of requests in flight together
ProverSlots == NumLoad - 1

\* C12: the invocations waiting at fullProve are never more than N, for a
\* slot count N smaller than the number of requests in flight
C12_ProvingBounded == Cardinality(ProvingNow) <= ProverSlots

\* C12 happens: every request in flight is in fullProve at once, none queued
C12_EveryRequestProving ==
    /\ \A i \in LoadIds : req[i].pc = "proving"
    /\ Cardinality(ProvingNow) = NumLoad

\* C13: every /prove invocation that has called the prover has, in the end,
\* its response
C13_ProveCallTerminates ==
    \A i \in LoadIds : (req[i].pc = "proving") ~> (req[i].pc = "done")

\* C13 happens: an invocation waits at fullProve, the other request has been
\* answered
C13_WaitingOnProver ==
    \E i \in LoadIds, j \in LoadIds :
        /\ req[i].pc = "proving"
        /\ req[j].pc = "done" /\ req[j].res = Success

\* the step whose non-zero exit a 500 response reports
FailedAt(r, cmd) == r.status = 500 /\ r.details.cmd = cmd

\* C14: a failure of witness generation and a failure of the prover are
\* answered with different error kinds
C14_FailureKindsDistinct ==
    \A i \in ProveIds, j \in ProveIds :
        (/\ freq[i].pc = "done" /\ FailedAt(freq[i].res, WitnessCmd)
         /\ freq[j].pc = "done" /\ FailedAt(freq[j].res, ProverCmd))
            => freq[i].res.error # freq[j].res.error

\* C14 happens: one call ended with the witness generator's non-zero exit,
\* another with the prover's; each response carries the subprocess's stderr
\* and both carry the error 'Proof generation failed'
C14_BothFailuresSameKind ==
    \E i \in ProveIds, j \in ProveIds :
        /\ freq[i].pc = "done" /\ FailedAt(freq[i].res, WitnessCmd)
        /\ freq[i].res.details.stderr = WitnessStderr
        /\ freq[j].pc = "done" /\ FailedAt(freq[j].res, ProverCmd)
        /\ freq[j].res.details.stderr = Log
        /\ freq[i].res.error = <<"Proof", "generation", "failed">>
        /\ freq[j].res.error = <<"Proof", "generation", "failed">>

\* C15: a key fetchJWK(provider, keyId) returns is a key of a configured
\* provider whose kid is keyId, as every entry stored by a resolve of that
\* pair is
C15_CacheKeyedByPair ==
    /\ (ret.res # NoRes /\ ret.res.ok) =>
          /\ ret.provider \in DOMAIN OAUTH_PROVIDERS
          /\ Get(Jwk(ret.res.val), "kid") = Str(ret.keyId)

\* C15 happens: fetchJWK('google_x', 'kid1') has returned, without a fetch,
\* the key cached by fetchJWK('google', 'x_kid1')
C15_OtherPairsEntryReturned ==
    /\ ret.provider = "google_x" /\ ret.keyId = "kid1"
    /\ ret.fetches = 0
    /\ ret.res # NoRes /\ ret.res.ok
    /\ Get(Jwk(ret.res.val), "kid") = Str("x_kid1")
    /\ ret.res.val = jwkCache[CacheKey("google", "x_kid1")].jwk

\* C16: when a fetchJWK call that found an expired entry under its key has
\* returned or thrown, that entry is not in the cache
C16_ExpiredEntryEvicted ==
    (ret.res # NoRes /\ ret.cached # NoRes /\ ret.fetches = 1) =>
        LET ck == CacheKey(ret.provider, ret.keyId)
        IN  ~(ck \in DOMAIN jwkCache /\ jwkCache[ck] = ret.cached)

\* C16 happens: a call found its entry expired, its refresh fetch failed and
\* the expired entry is still in the cache
C16_ExpiredEntryKept ==
    LET ck == CacheKey(ret.provider, ret.keyId)
    IN  /\ ret.res # NoRes /\ ~ret.res.ok
        /\ ret.fetches = 1
        /\ ret.cached # NoRes
        /\ now - ret.cached.timestamp >= JWK_CACHE_TTL
        /\ ck \in DOMAIN jwkCache /\ jwkCache[ck] = ret.cached

\* C17: in every step the cache changes only by the store of the fetchJWK
\* call that returns its fetched key in that step, or by being cleared: the
\* entry under that call's key becomes the key the call returns together
\* with the time of the store, whatever other calls for the same pair are in
\* flight or have stored before, and every other entry is left as it was
C17_WholeEntryLastWriterWins ==
    [][LET stored == ret'.seq # ret.seq /\ ret'.fetches = 1 /\ ret'.res.ok
           ck == CacheKey(ret'.provider, ret'.keyId)
       IN  /\ stored => /\ ck \in DOMAIN jwkCache'
                        /\ jwkCache'[ck] = [jwk |-> ret'.res.val, timestamp |-> now]
           /\ \A x \in DOMAIN jwkCache' :
                 (stored /\ x = ck) \/ (x \in DOMAIN jwkCache /\ jwkCache'[x] = jwkCache[x])
           /\ (jwkCache' # jwkCache) => (stored \/ jwkCache' = EmptyCache)]_vars

\* C17 happens: two calls refreshed the same pair together; one has stored
\* the key it fetched while the other, which found the cache without the
\* entry now there, still has its JWKS request in flight
C17_ConcurrentRefresh ==
    \E b \in CallIds :
        LET ck == CacheKey(ret.provider, ret.keyId)
        IN  /\ call[b].pc = "fetching"
            /\ call[b].provider = ret.provider /\ call[b].keyId = ret.keyId
            /\ ret.res # NoRes /\ ret.res.ok /\ ret.fetches = 1
            /\ ret.cached = call[b].cached
            /\ ck \in DOMAIN jwkCache
            /\ jwkCache[ck] = [jwk |-> ret.res.val, timestamp |-> now]
            /\ jwkCache[ck] # call[b].cached

\* the iss claim of the token of a request, Undef when the token has none
IssuerOf(b) ==
    IF b.jwt.t = "jwt" /\ Len(b.jwt.parts) = 3
    THEN Get(b.jwt.parts[2].dec, "iss") ELSE Undef
\* the issuer neither equals nor starts with a configured issuer
IssuerUnsupported(b) ==
    /\ IssuerOf(b) # Undef
    /\ ~\E p \in DOMAIN OAUTH_PROVIDERS :
           IssuerOf(b).t = "str" /\ StartsWith(IssuerOf(b).s, OAUTH_PROVIDERS[p])

\* C18: a request whose token's issuer matches no configured issuer is
\* answered with 'Unsupported issuer' in the step that receives it: no JWKS
\* request goes out, the prover is not called, the cache is left as it was
C18_UnsupportedIssuerRefused ==
    [][\A i \in ReqIds :
          (req'[i] # req[i] /\ req'[i].rid # 0
           /\ IssuerUnsupported(Requests[req'[i].rid]))
              => /\ req'[i].pc = "done"
                 /\ Includes(req'[i].res.error, <<"Unsupported", "issuer">>)
                 /\ ~req'[i].res.proved
                 /\ jwkCache' = jwkCache]_vars

\* C18 happens: a request whose token has the issuer 123 was refused with
\* the TypeError of issuer.startsWith, without a fetch or a proof
C18_NumericIssuerTypeError ==
    \E i \in ReqIds :
        /\ req[i].pc = "done"
        /\ IssuerOf(Requests[req[i].rid]) = Num(123)
        /\ IssuerUnsupported(Requests[req[i].rid])
        /\ req[i].res = Failure(<<"issuer.startsWith", "is", "not", "a", "function">>, FALSE)
        /\ jwkCache = EmptyCache

SegCount(tok) ==
    IF tok.t = "jwt" THEN Len(tok.parts) ELSE IF tok.t = "str" THEN 1 ELSE 0
\* the errors of the token's shape: not a non-empty string, not three
\* segments, 'JWT parsing failed: ...'
Malformed(r) ==
    /\ ~r.ok
    /\ \/ r.err = MsgInvalidToken
       \/ r.err = MsgParts
       \/ /\ Len(r.err) >= Len(MsgParsingFailed)
          /\ SubSeq(r.err, 1, Len(MsgParsingFailed)) = MsgParsingFailed

HeaderError(r) == ~r.ok /\ r.err \in {MsgHeaderFields, MsgTokenType}

\* C21: parsing a three-segment token whose header is an object without alg
\* or typ, or with a typ other than 'JWT', fails with a header error, in
\* both cases one that is not a malformed-token or 'JWT parsing failed' error
C21_HeaderErrorsSameKind ==
    (pRes # NoRes /\ SegCount(pTok) = 3 /\ pTok.parts[1].dec.t = "obj") =>
        LET h == pTok.parts[1].dec
            missing == ~Truthy(Get(h, "alg")) \/ ~Truthy(Get(h, "typ"))
            wrongTyp == Truthy(Get(h, "typ")) /\ Get(h, "typ") # Str("JWT")
        IN  (missing \/ wrongTyp) => (HeaderError(pRes) /\ ~Malformed(pRes))

\* C21 fails: a token whose header has alg 'RS256' and typ 'JWS' has been
\* parsed, and the error is 'JWT parsing failed: Invalid token type'
C21_WrongTypParsingFailed ==
    /\ SegCount(pTok) = 3
    /\ pTok.parts[1].dec = Header(Str("RS256"), Str("JWS"), Str("kid1"))
    /\ pRes = Err(MsgParsingFailed \o MsgTokenType)
    /\ Malformed(pRes)

\* a value that is there and is not the empty string
NonEmpty(v) == v.t \notin {"undef", "null"} /\ v # Str("")

\* C22: every token parseJWT returns had exactly three segments and a
\* non-empty signature segment, its header has alg and typ 'JWT', its
\* payload has non-empty iss, sub and aud, and the returned header, payload
\* and signature are those of the token
C22_ParsedTokenWellFormed ==
    (pRes # NoRes /\ pRes.ok) =>
        /\ SegCount(pTok) = 3
        /\ pRes.val.signature = pTok.parts[3]
        /\ pRes.val.signature.raw # ""
        /\ pRes.val.header = pTok.parts[1].dec
        /\ pRes.val.payload = pTok.parts[2].dec
        /\ NonEmpty(Get(pRes.val.header, "alg"))
        /\ Get(pRes.val.header, "typ") = Str("JWT")
        /\ NonEmpty(Get(pRes.val.payload, "iss"))
        /\ NonEmpty(Get(pRes.val.payload, "sub"))
        /\ NonEmpty(Get(pRes.val.payload, "aud"))

\* C22 happens: a token has been parsed and returned
C22_TokenReturned ==
    /\ pRes # NoRes /\ pRes.ok
    /\ pRes.val.raw.signature = "sig"
    /\ pRes.val.header = GoodHeader
    /\ Get(pRes.val.payload, "sub") = Str("user-1")

\* twice a BigInt magnitude: a digit of 5 or more carries into the next
BigDouble(a) ==
    LET n == Len(a)
        D(i) == (2 * a[i] + (IF i < n /\ a[i + 1] >= 5 THEN 1 ELSE 0)) % 10
        low == [i \in 1..n |-> D(i)]
    IN  IF a[1] >= 5 THEN <<1>> \o Array(low, n) ELSE Array(low, n)
\* a BigInt magnitude times 2^k
RECURSIVE BigShift(_, _)
BigShift(a, k) ==
    IF k = 0 THEN a
    ELSE LET b == BigDouble(a)
         IN  IF Len(b) > 0 THEN BigShift(b, k - 1) ELSE b
\* 2^64, 2^128, 2^192 and 2^256 (the width validateDecimalString is called
\* with is 256, server.js 237), each 2^64 times the one before
TwoTo64 ==
    <<1, 8, 4, 4, 6, 7, 4, 4, 0, 7, 3, 7, 0, 9, 5, 5, 1, 6, 1, 6>>
TwoTo128 ==
    <<3, 4, 0, 2, 8, 2, 3, 6, 6, 9, 2, 0, 9, 3, 8, 4, 6, 3, 4, 6, 3, 3, 7,
      4, 6, 0, 7, 4, 3, 1, 7, 6, 8, 2, 1, 1, 4, 5, 6>>
TwoTo192 ==
    <<6, 2, 7, 7, 1, 0, 1, 7, 3, 5, 3, 8, 6, 6, 8, 0, 7, 6, 3, 8, 3, 5, 7,
      8, 9, 4, 2, 3, 2, 0, 7, 6, 6, 6, 4, 1, 6, 1, 0, 2, 3, 5, 5, 4, 4, 4,
      4, 6, 4, 0, 3, 4, 5, 1, 2, 8, 9, 6>>
TwoTo256 ==
    <<1, 1, 5, 7, 9, 2, 0, 8, 9, 2, 3, 7, 3, 1, 6, 1, 9, 5, 4, 2, 3, 5, 7,
      0, 9, 8, 5, 0, 0, 8, 6, 8, 7, 9, 0, 7, 8, 5, 3, 2, 6, 9, 9, 8, 4, 6,
      6, 5, 6, 4, 0, 5, 6, 4, 0, 3, 9, 4, 5, 7, 5, 8, 4, 0, 0, 7, 9, 1, 3,
      1, 2, 9, 6, 3, 9, 9, 3, 6>>
PowersOfTwo ==
    /\ TwoTo64 = BigShift(<<1>>, 64)
    /\ TwoTo128 = BigShift(TwoTo64, 64)
    /\ TwoTo192 = BigShift(TwoTo128, 64)
    /\ TwoTo256 = BigShift(TwoTo192, 64)
\* the errors validateDecimalString throws (server.js 239, 243, 251)
DecimalErrors(fieldName) ==
    { <<fieldName, "must", "be", "a", "string">>,
      <<fieldName, "must", "contain", "only", "digits">>,
      <<fieldName, "exceeds", "maximum", "256-bit", "value">> }

\* C23: validateDecimalString returns a value exactly when the value is a
\* non-empty string of decimal digits whose integer value is below 2^256,
\* and then returns that value; for every other value it throws one of its
\* numeric-input errors
C23_DecimalAcceptedIffValid ==
    /\ PowersOfTwo
    /\ (arg.fn = "validateDecimalString" /\ out # NoRes) =>
          LET v == arg.v
              valid == /\ v.t = "dec" /\ Len(v.c) > 0
                       /\ \A i \in 1..Len(v.c) : v.c[i] \in DigitChars
                       /\ BigLess(BigOfDigits(v.c), TwoTo256)
          IN  /\ out.ok <=> valid
              /\ out.ok => out.val = v
              /\ ~out.ok => out.err \in DecimalErrors("salt")

\* C23 happens: the decimal text of 2^256 - 1 has been accepted and returned,
\* after that of 2^256 could be refused
C23_LargestValueAccepted ==
    /\ arg.fn = "validateDecimalString"
    /\ arg.v = Dec(BigToString(MaxValue256))
    /\ PowersOfTwo
    /\ out = Ok(arg.v)

\* the bytes of the nonce claim of a request's token (server.js 509-513)
NonceBytes(b) == Get(b.jwt.parts[2].dec, "nonce").bytes
\* bytes as an array of n decimal strings, zero elements in front
LeftPadded(bytes, n) ==
    [k \in 1..n |-> IF k <= n - Len(bytes) THEN <<"0">>
                    ELSE NatDigits(bytes[k - (n - Len(bytes))])]

\* C24: in the circuit inputs handed to the prover issuerHash, jwtHash,
\* subjectHash and jwtNonce have 32 elements, jwkModulus and jwtSignature
\* 64, ephemeralPubKey 2; the digests are their 32 bytes and a nonce of
\* fewer than 32 bytes has zero elements in front of its bytes
C24_ArraysHaveDeclaredLength ==
    \A i \in ReqIds :
        req[i].pc = "proving" =>
            LET in == req[i].inputs
                b == Requests[req[i].rid]
                payload == b.jwt.parts[2].dec
                claim == IF b.keyClaimName = Undef THEN "sub" ELSE b.keyClaimName.s
            IN  /\ Len(in.issuerHash) = 32 /\ Len(in.jwtHash) = 32
                /\ Len(in.subjectHash) = 32 /\ Len(in.jwtNonce) = 32
                /\ Len(in.jwkModulus) = 64 /\ Len(in.jwtSignature) = 64
                /\ Len(in.ephemeralPubKey) = 2
                /\ in.issuerHash = LeftPadded(Sha256(Get(payload, "iss").s), 32)
                /\ in.subjectHash = LeftPadded(Sha256(Get(payload, claim).s), 32)
                /\ Len(NonceBytes(b)) <= 32
                      => in.jwtNonce = LeftPadded(NonceBytes(b), 32)

\* C24 happens: the prover runs on inputs whose jwtNonce is twelve zero
\* elements and then the twenty bytes of the token's nonce claim
C24_ShortNoncePadded ==
    \E i \in ReqIds :
        /\ req[i].pc = "proving"
        /\ NonceBytes(Requests[req[i].rid]) = Pattern(20, 7, 13, 5)
        /\ \A k \in 1..12 : req[i].inputs.jwtNonce[k] = <<"0">>
        /\ req[i].inputs.jwtNonce[13] = <<"7">>
        /\ Len(req[i].inputs.jwtNonce) = 32

\* C25: hexToFieldArray refuses the hex text of a buffer of more than 32
\* bytes, returning no array for it
C25_OverlongFieldRefused ==
    (arg.fn = "hexToFieldArray" /\ out # NoRes /\ Len(arg.v.bytes) > 32) => ~out.ok

\* C25 fails: the hex text of 33 bytes has been encoded to 32 elements, the
\* first byte dropped
C25_OverlongFieldTruncated ==
    /\ arg.fn = "hexToFieldArray"
    /\ Len(arg.v.bytes) = 33 /\ arg.v.bytes[1] = 7
    /\ out # NoRes /\ out.ok
    /\ out.val = [k \in 1..32 |-> NatDigits(arg.v.bytes[k + 1])]

\* C26: the chunk loops refuse a modulus or a signature of more than 64
\* four-byte chunks (more than 256 bytes), returning no array for it
C26_OversizeKeyMaterialRefused ==
    (arg.fn \in {"jwkToCircuitFormat", "signatureChunks"} /\ out # NoRes
        /\ (Len(arg.v.bytes) + 3) \div 4 > 64) => ~out.ok

\* C26 fails: a modulus of 512 bytes has been encoded to 64 chunks, those
\* of its first 256 bytes
C26_OversizeModulusTruncated ==
    /\ arg.fn = "jwkToCircuitFormat"
    /\ Len(arg.v.bytes) = 512
    /\ out # NoRes /\ out.ok
    /\ out.val = Chunks(SubSeq(arg.v.bytes, 1, 256))

\* the decimal text of hi * 2^16 + lo, for hi and lo below 2^16
RECURSIVE U32Digits(_, _)
U32Digits(hi, lo) ==
    IF hi = 0 THEN NatDigits(lo)
    ELSE LET rest == (hi % 10) * 65536 + lo
         IN  U32Digits(hi \div 10, rest \div 10) \o <<DigitChar(rest % 10)>>
\* limb i (from 0) of the little-endian base-2^32 representation of the
\* integer that bytes, most significant first, are the digits of
LimbOfValue(bytes, i) ==
    LET n == Len(bytes)
        B(j) == IF n - 4 * i - j >= 1 THEN bytes[n - 4 * i - j] ELSE 0
    IN  U32Digits(B(2) + 256 * B(3), B(0) + 256 * B(1))

\* C27: for a modulus or signature of at most 256 bytes the 64 chunks are
\* non-negative decimal strings, and chunk i is limb i of the little-endian
\* base-2^32 representation of the integer the bytes stand for
C27_LimbsRepresentValue ==
    (arg.fn \in {"jwkToCircuitFormat", "signatureChunks"} /\ out # NoRes
        /\ Len(arg.v.bytes) <= 256) =>
        /\ out.ok /\ Len(out.val) = 64
        /\ \A k \in 1..64 :
              /\ IsDigits(out.val[k])
              /\ out.val[k] = LimbOfValue(arg.v.bytes, k - 1)

\* C27 fails: the 256 bytes 01 00 ... 00 (the integer 2^2040) have been
\* encoded to the chunks 1, 0, ..., 0, whose sum of limb[i] * 2^(32 i) is 1;
\* limb 63 of 2^2040 is 16777216
C27_LimbsOfFirstBytesFirst ==
    /\ arg.fn = "signatureChunks"
    /\ arg.v.bytes = Pattern(256, 1, 0, 0)
    /\ out # NoRes /\ out.ok
    /\ out.val = [k \in 1..64 |-> IF k = 1 THEN <<"1">> ELSE <<"0">>]
    /\ LimbOfValue(arg.v.bytes, 63) = NatDigits(16777216)
    /\ LimbOfValue(arg.v.bytes, 0) = <<"0">>

\* C28: two requests whose (subject value, audience, issuer, salt) tuples
\* differ get different address seeds
C28_DistinctTuplesDistinctSeeds ==
    (arg.fn = "addressSeed" /\ out # NoRes /\ arg.v.a # arg.v.b)
        => out.val[1] # out.val[2]

\* C28 fails: the tuples ('user-1', 'app-1', issuer, '12345') and
\* ('user-', '1app-1', issuer, '12345') have been given the same seed
C28_ShiftedTuplesSameSeed ==
    /\ arg.fn = "addressSeed"
    /\ arg.v.a = SeedTuple("user-1", "app-1", IssGoogle, "12345")
    /\ arg.v.b = SeedTuple("user-", "1app-1", IssGoogle, "12345")
    /\ out # NoRes /\ out.val[1] = out.val[2]

\* a text that is one JSON document followed by zero or more null bytes,
\* and the document
PaddedJson(content) ==
    /\ Len(content.text) >= 1
    /\ content.text[1].t \notin {"notjson", "nul", "ws"}
    /\ \A k \in 2..Len(content.text) : content.text[k] = Nul
DocOf(content) == content.text[1]

\* C29: wherever prover output is read back, a proof file and a public file
\* that are valid JSON followed by zero or more null bytes parse to the
\* values of their JSON documents
C29_PaddedOutputParsed ==
    (arg.fn \in {"readBack", "testReadBack"} /\ out # NoRes)
        => ((PaddedJson(arg.v.proof) /\ PaddedJson(arg.v.public))
               => out = Ok([proof |-> DocOf(arg.v.proof),
                            publicSignals |-> DocOf(arg.v.public)]))

\* C29 happens: the test script reads a proof file that is a JSON document
\* followed by null bytes, and the parse throws a SyntaxError, while the
\* handler's read-back of the same files returns the document
C29_TestScriptRejectsPadding ==
    /\ arg.fn = "testReadBack"
    /\ out # NoRes
    /\ PaddedJson(arg.v.proof)
    /\ PaddedJson(arg.v.public)
    /\ Len(arg.v.proof.text) > 1
    /\ out = Err(MsgSyntaxError)
    /\ ReadBack(arg.v.proof, arg.v.public).ok
    /\ ReadBack(arg.v.proof, arg.v.public).val.proof = DocOf(arg.v.proof)

\* C30: no call of the prover is answered with status 200 and a proof point
\* that is missing from the proof artifact
C30_NoSuccessWithoutProofPoint ==
    \A i \in ProveIds :
        (freq[i].pc = "done" /\ freq[i].res.status = 200)
            => /\ freq[i].res.proofPoints.a # Undef
               /\ freq[i].res.proofPoints.b # Undef
               /\ freq[i].res.proofPoints.c # Undef

\* C30 happens: rapidsnark left a proof file that is a JSON object without
\* pi_a, and the call was answered with status 200, proofPoints.a undefined
\* and the other two points those of the file
C30_SuccessWithUndefinedPoint ==
    \E i \in ProveIds :
        /\ freq[i].pc = "done"
        /\ freq[i].res.status = 200
        /\ freq[i].res.proofPoints.a = Undef
        /\ freq[i].res.proofPoints.b = ProofPoint("b", freq[i].ci)
        /\ freq[i].res.proofPoints.c = ProofPoint("c", freq[i].ci)

\* the kind of an error: the fixed text of its message, up to the colon
\* after which a value is put
ErrorKind(err) ==
    LET colons == {k \in 1..Len(err) : err[k] = ":"}
    IN  IF colons = {} THEN err
        ELSE SubSeq(err, 1, CHOOSE k \in colons : \A j \in colons : k <= j)

\* C31: two requests that differ only in the token and are refused with
\* errors of the same kind receive the same error payload
C31_SameKindSamePayload ==
    (arg.fn = "errorPayloads" /\ out # NoRes)
        => ((/\ out.val[1] # NoRes
             /\ out.val[2] # NoRes
             /\ ErrorKind(out.val[1].error) = ErrorKind(out.val[2].error))
               => out.val[1] = out.val[2])

\* C31 happens: two requests whose tokens differ in the iss claim are both
\* refused for an unsupported issuer, and each error payload carries the
\* iss claim decoded from its token
C31_IssuerEchoed ==
    /\ arg.fn = "errorPayloads"
    /\ out # NoRes
    /\ out.val[1] # NoRes
    /\ out.val[2] # NoRes
    /\ ErrorKind(out.val[1].error) = <<"Unsupported", "issuer", ":">>
    /\ ErrorKind(out.val[2].error) = <<"Unsupported", "issuer", ":">>
    /\ out.val[1].error[4] = Get(arg.v.a.jwt.parts[2].dec, "iss").s
    /\ out.val[2].error[4] = Get(arg.v.b.jwt.parts[2].dec, "iss").s
    /\ out.val[1] # out.val[2]

\* the stages of request i that succeeded on its body: the token parsed,
\* its issuer is one of a provider, its header has a kid; the numeric
\* parameters are decimal texts in range and the token has a nonce
Parsed(i) == parseJWT(Requests[req[i].rid].jwt, now \div 1000)
TokenResolvable(i) ==
    /\ Parsed(i).ok
    /\ \E p \in DOMAIN OAUTH_PROVIDERS :
          /\ StartsWith(Get(Parsed(i).val.payload, "iss").s, OAUTH_PROVIDERS[p])
          /\ req[i].provider = p
    /\ Get(Parsed(i).val.header, "kid") = Str(req[i].keyId)
ParametersChecked(i) ==
    LET b == Requests[req[i].rid]
    IN  /\ validateDecimalString(b.salt, "salt").ok
        /\ validateDecimalString(b.jwtRandomness, "jwtRandomness").ok
        /\ validateDecimalString(ToStringJs(b.maxEpoch), "maxEpoch").ok
        /\ Truthy(Get(Parsed(i).val.payload, "nonce"))
KeyResolved(i) ==
    \E id \in ValidKeys :
        /\ Get(Jwk(id), "kid") = Str(req[i].keyId)
        /\ req[i].inputs.jwkModulus = jwkToCircuitFormat(Jwk(id)).modulus

\* C32: a /prove request waits for the key set only if its token parsed,
\* mapped to a provider and carries a kid; it waits for the prover only if,
\* beyond that, a key was resolved and the numeric and nonce checks passed;
\* and the success response is sent only by a request that waited for the
\* prover
C32_StagesInOrder ==
    /\ [](\A i \in ReqIds :
            /\ req[i].pc \in {"fetching", "proving"} => TokenResolvable(i)
            /\ req[i].pc = "proving" => (KeyResolved(i) /\ ParametersChecked(i)))
    /\ [][\A i \in ReqIds :
            /\ (req'[i].pc = "proving" /\ req[i].pc # "proving")
                  => \/ req[i].pc = "fetching"
                     \/ FetchLookup(jwkCache, req'[i].provider, req'[i].keyId, now).k = "hit"
            /\ (req'[i].pc = "done" /\ req'[i].res.status = 200 /\ req[i].pc # "done")
                  => req[i].pc = "proving"]_vars

\* C32 happens: a request went through every stage and was answered with
\* the success response, the key it used now in the cache
C32_AllStagesPassed ==
    \E i \in ReqIds :
        /\ req[i].pc = "done"
        /\ req[i].res.status = 200
        /\ jwkCache # EmptyCache

\* C33: the handler of a call reaches the execSync of the prover only from
\* the execSync of the witness generator, with the witness of the call's own
\* input written; the prover has run (its log was written) only for calls
\* whose witness was written; and a call whose witness generation failed is
\* answered without the prover having run
C33_ProverAfterWitness ==
    /\ [](\A i \in ProveIds :
            /\ (freq[i].pc = "read" \/ LogPath \in freq[i].paths)
                  => WitnessPath \in freq[i].paths
            /\ (/\ freq[i].pc = "done"
                /\ freq[i].res = GenerationFailed(CommandFailed(WitnessCmd, WitnessStderr)))
                  => LogPath \notin freq[i].paths)
    /\ [][\A i \in ProveIds :
            (freq'[i].pc = "prove" /\ freq[i].pc # "prove")
                => /\ freq[i].pc = "witness"
                   /\ disk'[WitnessPath] = WitnessOf(freq[i].ci)]_vars

\* C33 happens: the witness generation of one call failed and the call was
\* answered with that failure, the prover not run for it, while the prover
\* ran for another call
C33_WitnessFailedProverSkipped ==
    \E i \in ProveIds, j \in ProveIds :
        /\ freq[i].pc = "done"
        /\ freq[i].res = GenerationFailed(CommandFailed(WitnessCmd, WitnessStderr))
        /\ LogPath \notin freq[i].paths
        /\ WitnessPath \notin freq[i].paths
        /\ LogPath \in freq[j].paths

\* C34: a response with status 200 and isValid true is sent only for a
\* request whose fullProve call returned and whose public signals carry
\* validProof = 1
C34_ValidOnlyWithValidProof ==
    \A i \in ReqIds :
        (req[i].pc = "done" /\ req[i].res.status = 200 /\ req[i].res.isValid)
            => (req[i].res.proved /\ req[i].res.validProof = "1")

\* C34 happens: fullProve returned a proof whose validProof is 0 and the
\* request was answered with status 200 and isValid true
C34_InvalidProofAccepted ==
    \E i \in ReqIds :
        /\ req[i].pc = "done"
        /\ req[i].res.status = 200
        /\ req[i].res.isValid
        /\ req[i].res.validProof = "0"

\* the request of invocation r supplies extendedEphemeralPublicKey as an
\* object with x and y
ObjectKey(r) ==
    /\ r.rid # 0
    /\ LET key == Requests[r.rid].extendedEphemeralPublicKey
       IN  /\ Truthy(key)
           /\ ~IsString(key)
           /\ Truthy(Get(key, "x"))
           /\ Truthy(Get(key, "y"))

\* C35: a /prove request with an object key that passed every validation
\* and for which fullProve returned a proof is answered with the success
\* response
C35_ObjectKeyProved ==
    \A i \in ReqIds :
        (/\ req[i].pc = "done"
         /\ ObjectKey(req[i])
         /\ req[i].res.proved
         /\ req[i].res.error # MsgProverFailed)
            => (req[i].res.status = 200 /\ req[i].res.isValid)

\* C35 happens: fullProve returned a proof for a request with an object key
\* and the request was answered 400 with the TypeError of the substring
\* call
C35_ObjectKeyRefusedAfterProof ==
    \E i \in ReqIds :
        /\ req[i].pc = "done"
        /\ ObjectKey(req[i])
        /\ req[i].res = Failure(MsgSubstring, TRUE)

\* C36: the step in which fetchJWK throws, before or after its JWKS request,
\* leaves jwkCache as it is, and so does the step that sends the request
C36_FailedResolveKeepsCache ==
    [][/\ (ret'.seq # ret.seq /\ ~ret'.res.ok) => jwkCache' = jwkCache
       /\ (\E c \in CallIds : call[c].pc = "idle" /\ call'[c].pc = "fetching")
             => jwkCache' = jwkCache]_vars

\* C36 happens: a call that found an expired entry of its key sent a JWKS
\* request and threw, and the entry is still in the cache, next to it the
\* entries of other keys
C36_FailedCallEntryKept ==
    /\ ret.res # NoRes
    /\ ~ret.res.ok
    /\ ret.fetches = 1
    /\ ret.cached # NoRes
    /\ CacheKey(ret.provider, ret.keyId) \in DOMAIN jwkCache
    /\ jwkCache[CacheKey(ret.provider, ret.keyId)] = ret.cached

\* C37: keyGenerationInProgress eventually is false for good, and from
\* then on it stays false and keysReady keeps its value
C37_InitialisationSettles ==
    /\ <>[](~keyGenerationInProgress)
    /\ [][(~keyGenerationInProgress)
             => (~keyGenerationInProgress' /\ keysReady' = keysReady)]_vars

\* C37 happens: the script failed, key generation is no longer in progress,
\* the keys are not ready, and a call has been answered since
C37_SettledAsFailed ==
    /\ ~keyGenerationInProgress
    /\ ~keysReady
    /\ keyGenerationError # Null
    /\ \E i \in ProveIds : freq[i].pc = "done" /\ freq[i].res = Unavailable

\* non-negative integers as base-256 numerals (big-endian bytes without
\* zeros in front), their sum, and their product with a power of 2^8
Numeral(bytes) ==
    LET nz == {k \in 1..Len(bytes) : bytes[k] # 0}
    IN  IF nz = {} THEN <<>>
        ELSE SubSeq(bytes, CHOOSE k \in nz : \A j \in nz : k <= j, Len(bytes))
NumeralSum(a, b) ==
    LET n == (IF Len(a) > Len(b) THEN Len(a) ELSE Len(b)) + 1
        A(i) == IF i < Len(a) THEN a[Len(a) - i] ELSE 0
        B(i) == IF i < Len(b) THEN b[Len(b) - i] ELSE 0
        Carry(i) ==
            IF \E j \in 0..(i - 1) :
                  /\ A(j) + B(j) >= 256
                  /\ \A k \in (j + 1)..(i - 1) : A(k) + B(k) = 255
            THEN 1 ELSE 0
    IN  Numeral([k \in 1..n |-> (A(n - k) + B(n - k) + Carry(n - k)) % 256])
NumeralShift(a, digits) ==
    IF a = <<>> THEN a ELSE a \o [k \in 1..digits |-> 0]

\* C38: for a raw 32-byte key the extraction returns what it returns for the
\* key behind a zero flag byte; for every accepted key, xFull * 2^128 + yFull
\* is the big-endian value of the 33-byte extended key, xFull is below 2^136
\* and yFull below 2^128
C38_ExtractionOfExtendedKey ==
    (arg.fn = "extractEphemeralKeyCoordinates" /\ out # NoRes)
        => LET K == arg.v.bytes
               extended == IF Len(K) = 32 THEN <<0>> \o K ELSE K
           IN  /\ out.ok <=> Len(K) \in {32, 33}
               /\ Len(K) = 32
                     => out = extractEphemeralKeyCoordinates(B64("key", <<0>> \o K))
               /\ out.ok
                     => /\ NumeralSum(NumeralShift(Numeral(out.val.xFull.be), 16),
                                      Numeral(out.val.yFull.be))
                              = Numeral(extended)
                        /\ Len(Numeral(out.val.xFull.be)) <= 17
                        /\ Len(Numeral(out.val.yFull.be)) <= 16

\* C38 happens: a raw 32-byte key whose first byte is not zero was accepted,
\* with a yFull whose first byte is zero and an xFull that starts with the
\* zero flag byte
C38_RawKeyExtracted ==
    /\ arg.fn = "extractEphemeralKeyCoordinates"
    /\ out # NoRes
    /\ out.ok
    /\ Len(arg.v.bytes) = 32
    /\ arg.v.bytes[1] # 0
    /\ out.val.xFull.be[1] = 0
    /\ out.val.xFull.be[2] = arg.v.bytes[1]
    /\ Len(Numeral(out.val.yFull.be)) < 16

\* the run met a binary that was started
Started(run) == run.writable /\ run.binary = "present"

\* C39: the wrapper exits 0 exactly when rapidsnark ran and exited 0; when
\* rapidsnark exited with another status the wrapper exits with that status
\* and its standard error is what rapidsnark wrote, stdout and stderr, which
\* is also the content of the log file
C39_WrapperPassesStatus ==
    (arg.fn = "rapidsnark-wrapper.sh" /\ out # NoRes)
        => /\ out.val.exit = 0 <=> (Started(arg.v) /\ arg.v.code = 0)
           /\ (Started(arg.v) /\ arg.v.code # 0)
                 => /\ out.val.exit = arg.v.code
                    /\ out.val.stderr = arg.v.output
                    /\ out.val.log = arg.v.output
           /\ (Started(arg.v) /\ arg.v.code = 0) => out.val.stderr = <<>>

\* C39 happens: rapidsnark was killed by SIGABRT after two lines of output,
\* and the wrapper exited 134 with the two lines on its standard error
C39_AbortPassedOn ==
    /\ arg.fn = "rapidsnark-wrapper.sh"
    /\ out # NoRes
    /\ Started(arg.v)
    /\ arg.v.code = 134
    /\ out.val.exit = 134
    /\ Len(out.val.stderr) = 2

============================================================================
